---------------------------- MODULE Spec2Model ----------------------------
(***************************************************************************)
(* Model of recorder_core (src/core/recorder_core/src/main.rs): the event  *)
(* ingest pipeline, the tracking-state controller, the privacy rules and   *)
(* the read paths built on the event log.                                  *)
(*                                                                         *)
(* Strings are sequences of tokens: a token is a run of characters that    *)
(* the code never looks inside, or one of the separators "." " " "\\" the  *)
(* code splits or trims on.  Option<T> is a sequence of length <= 1.       *)
(* Storage failures (rusqlite errors) are not modelled: every statement    *)
(* on the connection succeeds.                                             *)
(***************************************************************************)
EXTENDS Integers, Sequences, FiniteSets, TLC

VARIABLES
  now,             \* OffsetDateTime::now_utc(), in seconds
  tracking_state,  \* the row of table tracking_state
  events,          \* table events, in insertion order
  sqlite_sequence, \* the AUTOINCREMENT sequence of events.id
  privacy_rules,   \* table privacy_rules
  settings,        \* AppState.settings
  block_reviews,   \* table block_reviews
  last,            \* the request served last and its response
  reports,         \* table reports
  app_settings,    \* the row of table app_settings
  inflight,        \* the handlers between two lock acquisitions
  collector,       \* the locals of the windows collector's loop
  scheduler,       \* the locals of report_scheduler_loop
  issued           \* history: the ids given to events since init_db

\* what the handlers of the event log leave alone
aux == <<reports, app_settings, inflight, collector, scheduler, issued>>

vars == <<now, tracking_state, events, sqlite_sequence, privacy_rules,
          settings, block_reviews, last, aux>>

---------------------------------------------------------------------------
(* Option<T> *)
None == <<>>
Some(x) == <<x>>
is_some(o) == Len(o) = 1
is_none(o) == Len(o) = 0
unwrap(o) == o[1]

---------------------------------------------------------------------------
(* Strings as token sequences *)

\* char::to_lowercase on the tokens used by the model
LowerTok(t) ==
  CASE t = "YouTube" -> "youtube"
    [] t = "M" -> "m"
    [] t = "Chrome" -> "chrome"
    [] t = "EXE" -> "exe"
    [] OTHER -> t

to_lowercase(s) == [i \in 1..Len(s) |-> LowerTok(s[i])]

RECURSIVE trim_start(_)
trim_start(s) ==
  IF s # <<>> /\ Head(s) = " " THEN trim_start(Tail(s)) ELSE s

RECURSIVE trim_end(_)
trim_end(s) ==
  IF s # <<>> /\ s[Len(s)] = " " THEN trim_end(SubSeq(s, 1, Len(s) - 1)) ELSE s

trim(s) == trim_end(trim_start(s))

contains_dot(s) == \E i \in 1..Len(s) : s[i] = "."

\* str::split_once('.'): None, or Some(<<left, rest>>) at the first "."
split_once_dot(s) ==
  IF ~contains_dot(s) THEN None
  ELSE LET i == CHOOSE k \in 1..Len(s) :
                  s[k] = "." /\ \A j \in 1..(k - 1) : s[j] # "."
       IN Some(<<SubSeq(s, 1, i - 1), SubSeq(s, i + 1, Len(s))>>)

HIDDEN == <<"__hidden__">>

\* Option<String>::filter(|s| !s.trim().is_empty())
filter_non_blank(o) == IF is_some(o) /\ trim(unwrap(o)) # <<>> THEN o ELSE None

---------------------------------------------------------------------------
(* serde_json::Value, as far as the handlers look at it.  A field of a     *)
(* JSON object is an Option<Value>: None when the key is absent.           *)
JStr(s) == [j |-> "str", s |-> s, n |-> 0]
JNull == [j |-> "null", s |-> <<>>, n |-> 0]
JBool(b) == [j |-> "bool", s |-> <<>>, n |-> IF b THEN 1 ELSE 0]
JNum(k) == [j |-> "num", s |-> <<>>, n |-> k]

\* #[serde(default)] Option<String>: a string, or None for null / absent
as_opt_string(f) == IF is_some(f) /\ unwrap(f).j = "str" THEN Some(unwrap(f).s) ELSE None

\* Map::remove / Map::insert / Map::contains_key on the keys of the payload
obj_remove(obj, k) == [obj EXCEPT ![k] = None]
obj_insert(obj, k, v) == [obj EXCEPT ![k] = Some(v)]
obj_contains_key(obj, k) == is_some(obj[k])

---------------------------------------------------------------------------
(* RFC3339 text.  wf: the text is well-formed; inst: the instant it names, *)
(* in seconds; off: the UTC offset written in the text, in hours.          *)
Rfc3339Format(t) == [wf |-> TRUE, inst |-> t, off |-> 0]
\* the text of instant t written with the UTC offset off (in hours)
TextAt(t, off) == [wf |-> TRUE, inst |-> t, off |-> off]
\* mutant: a parser that accepts any text
Rfc3339ParseLenient(s) == Some(s.inst)

Rfc3339Parse(s) == IF s.wf THEN Some(s.inst) ELSE None
MalformedTs == [wf |-> FALSE, inst |-> 0, off |-> 0]
EpochTs == Rfc3339Format(0)


---------------------------------------------------------------------------
(* Tracking-state controller *)

\* the row init_db inserts into tracking_state
InitialTrackingState ==
  [paused |-> FALSE, paused_until_ts |-> None, updated_at |-> EpochTs]

set_tracking_pause(paused_until_ts, updated_at) ==
  [paused |-> TRUE, paused_until_ts |-> paused_until_ts, updated_at |-> updated_at]

set_tracking_resume(updated_at) ==
  [paused |-> FALSE, paused_until_ts |-> None, updated_at |-> updated_at]

\* the TrackingStatus read back from the row
load_tracking_status(row) == row

\* mutant: a pause without a deadline does not count as paused
tracking_is_paused_deadline_only(row, t) ==
  IF ~row.paused \/ is_none(row.paused_until_ts) THEN [paused |-> FALSE, row |-> row]
  ELSE LET until == Rfc3339Parse(unwrap(row.paused_until_ts))
       IN IF is_some(until) /\ unwrap(until) > t
          THEN [paused |-> TRUE, row |-> row]
          ELSE [paused |-> FALSE, row |-> set_tracking_resume(Rfc3339Format(t))]

\* mutant: the deadline is compared with < instead of <=
tracking_is_paused_strict(row, t) ==
  IF ~row.paused THEN [paused |-> FALSE, row |-> row]
  ELSE IF is_none(row.paused_until_ts) THEN [paused |-> TRUE, row |-> row]
  ELSE LET until == Rfc3339Parse(unwrap(row.paused_until_ts))
       IN IF is_some(until) /\ ~(unwrap(until) < t)
          THEN [paused |-> TRUE, row |-> row]
          ELSE [paused |-> FALSE, row |-> set_tracking_resume(Rfc3339Format(t))]

\* tracking_is_paused: the answer and the tracking_state row it leaves
tracking_is_paused(row, t) ==
  IF ~row.paused THEN [paused |-> FALSE, row |-> row]
  ELSE IF is_some(row.paused_until_ts)
       THEN LET until == Rfc3339Parse(unwrap(row.paused_until_ts))
            IN IF is_some(until)
               THEN IF unwrap(until) <= t
                    THEN [paused |-> FALSE, row |-> set_tracking_resume(Rfc3339Format(t))]
                    ELSE [paused |-> TRUE, row |-> row]
               ELSE [paused |-> FALSE, row |-> set_tracking_resume(Rfc3339Format(t))]
       ELSE [paused |-> TRUE, row |-> row]

---------------------------------------------------------------------------
(* Privacy rules: rows (kind, value, action), unique on (kind, value) *)

\* SELECT action FROM privacy_rules WHERE kind = ?1 AND value = ?2 LIMIT 1
check(rules, kind, value) ==
  IF \E r \in rules : r.kind = kind /\ r.value = value
  THEN Some((CHOOSE r \in rules : r.kind = kind /\ r.value = value).action)
  ELSE None

\* mutant: the walk goes on to the last label
RECURSIVE suffix_walk_to_tld(_, _)
suffix_walk_to_tld(rules, candidate) ==
  LET hit == check(rules, "domain", candidate)
      sp == split_once_dot(candidate)
  IN IF is_some(hit) THEN hit
     ELSE IF is_none(sp) THEN None
     ELSE suffix_walk_to_tld(rules, unwrap(sp)[2])

\* the loop of check_domain: candidate, then each suffix that still has a "."
RECURSIVE suffix_walk(_, _)
suffix_walk(rules, candidate) ==
  LET hit == check(rules, "domain", candidate)
      sp == split_once_dot(candidate)
  IN IF is_some(hit) THEN hit
     ELSE IF is_none(sp) THEN None
     ELSE IF ~contains_dot(unwrap(sp)[2]) THEN None
     ELSE suffix_walk(rules, unwrap(sp)[2])

check_domain(rules, domain) ==
  LET domain_lc == to_lowercase(domain)
  IN IF ~contains_dot(domain_lc) THEN check(rules, "domain", domain_lc)
     ELSE suffix_walk(rules, domain_lc)

\* privacy_action_for_event: Option<action> for an IngestEvent
privacy_action_for_event(rules, e) ==
  LET domain == filter_non_blank(e.domain)
      app == filter_non_blank(e.app)
      by_domain == IF is_some(domain) THEN check_domain(rules, unwrap(domain)) ELSE None
      by_app == IF is_some(app) THEN check(rules, "app", unwrap(app)) ELSE None
  IN IF e.event = "tab_active" /\ is_some(domain) THEN by_domain
     ELSE IF e.event = "app_active" /\ is_some(app) THEN by_app
     ELSE IF is_some(by_domain) THEN by_domain
     ELSE by_app

privacy_kind_for_event(event) ==
  IF event \in {"tab_active", "tab_audio_stop"} THEN "domain" ELSE "app"

\* PrivacyIndex::decision_for on the index PrivacyIndex::load builds
decision_for(rules, event, entity) ==
  LET kind == privacy_kind_for_event(event)
      value == IF kind = "domain" THEN to_lowercase(trim(entity)) ELSE trim(entity)
      hit == check(rules, kind, value)
  IN IF hit = Some("drop") THEN "Drop"
     ELSE IF hit = Some("mask") THEN "Mask"
     ELSE "Allow"

---------------------------------------------------------------------------
(* Ingest *)

\* serde_json::from_value::<IngestEvent>: None when the required v is missing
deserialize_event(payload) ==
  IF is_none(payload.v) \/ unwrap(payload.v).j # "num" THEN None
  ELSE Some([v |-> unwrap(payload.v).n,
             ts |-> payload.ts,
             source |-> payload.source,
             event |-> payload.event,
             domain |-> as_opt_string(payload.domain),
             app |-> as_opt_string(payload.app),
             title |-> as_opt_string(payload.title)])

\* the entity post_event computes for the row (lines 1176-1184)
required_entity(e) ==
  IF e.event = "tab_active" THEN filter_non_blank(e.domain)
  ELSE IF e.event = "app_active" THEN filter_non_blank(e.app)
  ELSE IF is_some(filter_non_blank(e.domain)) THEN filter_non_blank(e.domain)
  ELSE filter_non_blank(e.app)

\* the "mask" arm of post_event on the payload object
mask_payload(obj) ==
  LET o1 == obj_insert(obj, "masked", JBool(TRUE))
      o2 == IF obj_contains_key(o1, "domain")
            THEN obj_remove(obj_insert(o1, "domain", JStr(HIDDEN)), "title")
            ELSE o1
      o3 == IF obj_contains_key(o2, "app")
            THEN obj_remove(obj_remove(obj_remove(
                   obj_insert(o2, "app", JStr(HIDDEN)), "title"), "exePath"), "pid")
            ELSE o2
  IN o3

\* mutant: the "drop" arm is missing, a Drop rule falls through to the insert
apply_privacy_action_no_drop(action, entity, title, obj) ==
  IF action = Some("mask")
  THEN [drop |-> FALSE, entity |-> Some(HIDDEN), title |-> None, obj |-> mask_payload(obj)]
  ELSE [drop |-> FALSE, entity |-> entity, title |-> title, obj |-> obj]

\* the match on the rule's action in post_event: return early on "drop",
\* rewrite entity, title and payload on "mask"
apply_privacy_action(action, entity, title, obj) ==
  IF action = Some("drop")
  THEN [drop |-> TRUE, entity |-> entity, title |-> title, obj |-> obj]
  ELSE IF action = Some("mask")
  THEN [drop |-> FALSE, entity |-> Some(HIDDEN), title |-> None, obj |-> mask_payload(obj)]
  ELSE [drop |-> FALSE, entity |-> entity, title |-> title, obj |-> obj]

\* the global privacy settings applied to the payload object (L1/L2)
strip_payload(obj, s) ==
  LET o1 == IF ~s.store_titles THEN obj_remove(obj, "title") ELSE obj
      o2 == IF ~s.store_exe_path THEN obj_remove(obj_remove(o1, "exePath"), "pid") ELSE o1
  IN o2

\* mutant: INSERT OR IGNORE under a unique key on everything but the id
insert_event_unique(log, seq, e, entity, title, payload_json) ==
  LET row == [id |-> seq + 1, ts |-> e.ts, source |-> e.source, event |-> e.event,
              entity |-> entity, title |-> title, payload_json |-> payload_json]
  IN IF \E i \in 1..Len(log) : [log[i] EXCEPT !.id = 0] = [row EXCEPT !.id = 0]
     THEN log ELSE Append(log, row)

\* mutant: a plain INTEGER PRIMARY KEY on a table whose rows are deleted from
\* the end gives max(rowid) + 1, here the number of rows plus one
insert_event_by_count(log, seq, e, entity, title, payload_json) ==
  Append(log, [id |-> Len(log) + 1, ts |-> e.ts, source |-> e.source, event |-> e.event,
               entity |-> entity, title |-> title, payload_json |-> payload_json])

\* insert_event: the row appended, with the id AUTOINCREMENT allocates
insert_event(log, seq, e, entity, title, payload_json) ==
  Append(log, [id |-> seq + 1, ts |-> e.ts, source |-> e.source, event |-> e.event,
               entity |-> entity, title |-> title, payload_json |-> payload_json])

Reject(code, log, seq, row) ==
  [ok |-> FALSE, error |-> code, stored |-> FALSE, events |-> log,
   sqlite_sequence |-> seq, tracking_state |-> row]

Ack(stored, log, seq, row) ==
  [ok |-> TRUE, error |-> "", stored |-> stored, events |-> log,
   sqlite_sequence |-> seq, tracking_state |-> row]

\* post_event: the response and the state the handler leaves
post_event(payload, log, seq, row, rules, s, t) ==
  LET de == deserialize_event(payload)
  IN IF is_none(de) THEN Reject("invalid_json", log, seq, row)
     ELSE
     LET e == unwrap(de)
         entity0 == required_entity(e)
     IN IF e.v < 1 THEN Reject("invalid_version", log, seq, row)
        ELSE IF is_none(Rfc3339Parse(e.ts)) THEN Reject("invalid_ts", log, seq, row)
        ELSE IF e.event = "tab_active" /\ is_none(entity0)
             THEN Reject("missing_domain", log, seq, row)
        ELSE IF e.event = "tab_audio_stop" /\ is_none(entity0)
             THEN Reject("missing_domain", log, seq, row)
        ELSE IF e.event \in {"app_active", "app_audio", "app_audio_stop"} /\ is_none(entity0)
             THEN Reject("missing_app", log, seq, row)
        ELSE
        LET tp == tracking_is_paused(row, t)
            pa == apply_privacy_action(privacy_action_for_event(rules, e),
                                       entity0, e.title, payload)
            title == IF ~s.store_titles THEN None ELSE pa.title
            obj == strip_payload(pa.obj, s)
        IN IF tp.paused THEN Ack(FALSE, log, seq, tp.row)
           ELSE IF pa.drop THEN Ack(FALSE, log, seq, tp.row)
           ELSE Ack(TRUE, insert_event(log, seq, e, pa.entity, title, obj), seq + 1, tp.row)

---------------------------------------------------------------------------
(* Read path.  Instants and durations are whole seconds.                   *)

DOMAIN_FRESHNESS_SECONDS == 300
AUDIO_IDLE_CUTOFF_SECONDS == 120
SECONDS_PER_DAY == 86400

min(a, b) == IF a <= b THEN a ELSE b
max(a, b) == IF a >= b THEN a ELSE b
take(s, n) == SubSeq(s, 1, min(n, Len(s)))
reverse(s) == [i \in 1..Len(s) |-> s[Len(s) + 1 - i]]
remove_at(s, i) == SubSeq(s, 1, i - 1) \o SubSeq(s, i + 1, Len(s))
first(s) == IF s = <<>> THEN None ELSE Some(Head(s))

\* how SQLite compares the TEXT column ts: RFC3339 texts of one shape sort
\* by the local clock reading they spell
TsText(ts) == ts.inst + 3600 * ts.off

\* the order of idx_events_ts: by ts, rows of equal ts by rowid
RowBefore(a, b) ==
  \/ TsText(a.ts) < TsText(b.ts)
  \/ TsText(a.ts) = TsText(b.ts) /\ a.id < b.id

\* ORDER BY ts ASC
RECURSIVE order_by_ts_asc(_)
order_by_ts_asc(rows) ==
  IF rows = <<>> THEN <<>>
  ELSE LET i == CHOOSE k \in 1..Len(rows) :
                  \A j \in 1..Len(rows) : j = k \/ RowBefore(rows[k], rows[j])
       IN <<rows[i]>> \o order_by_ts_asc(remove_at(rows, i))

\* ORDER BY ts DESC
order_by_ts_desc(rows) == reverse(order_by_ts_asc(rows))

\* WHERE event = ?
RECURSIVE where_event(_, _)
where_event(rows, kinds) ==
  IF rows = <<>> THEN <<>>
  ELSE (IF Head(rows).event \in kinds THEN <<Head(rows)>> ELSE <<>>)
       \o where_event(Tail(rows), kinds)

parse_activity_from_payload(payload_json) == as_opt_string(payload_json.activity)

event_record_from_row(row) ==
  [id |-> row.id, ts |-> row.ts, source |-> row.source, event |-> row.event,
   entity |-> row.entity, title |-> row.title,
   activity |-> parse_activity_from_payload(row.payload_json)]

\* Option<EventRecord>: None for Drop, the hidden record for Mask
apply_privacy_to_event(e, rules) ==
  IF is_none(e.entity) THEN Some(e)
  ELSE LET d == decision_for(rules, e.event, unwrap(e.entity))
       IN IF d = "Drop" THEN None
          ELSE IF d = "Mask" THEN Some([e EXCEPT !.entity = Some(HIDDEN), !.title = None])
          ELSE Some(e)

\* the rows of a query as records, in order, without the dropped ones
RECURSIVE visible_records(_, _)
visible_records(rows, rules) ==
  IF rows = <<>> THEN <<>>
  ELSE apply_privacy_to_event(event_record_from_row(Head(rows)), rules)
       \o visible_records(Tail(rows), rules)

\* list_events: the LIMIT applies to the rows, before the privacy decision
list_events(log, limit, rules) ==
  visible_records(take(order_by_ts_desc(log), limit), rules)

is_audio_record(e) == e.activity = Some(<<"audio">>)

RECURSIVE first_where_audio(_, _)
first_where_audio(records, audio) ==
  IF records = <<>> THEN None
  ELSE IF is_audio_record(Head(records)) = audio THEN Some(Head(records))
  ELSE first_where_audio(Tail(records), audio)

\* load_now_snapshot::age_seconds
age_seconds(ts, t) ==
  IF is_none(Rfc3339Parse(ts)) THEN None ELSE Some(max(t - unwrap(Rfc3339Parse(ts)), 0))

age_of(rec, t) == IF is_none(rec) THEN None ELSE age_seconds(unwrap(rec).ts, t)

\* the part of a path after its last '\' or '/'
RECURSIVE file_name(_)
file_name(app) ==
  IF \E i \in 1..Len(app) : app[i] \in {"\\", "/"} THEN file_name(Tail(app)) ELSE app

BrowserApps ==
  { <<b, ".", "exe">> : b \in {"chrome", "msedge", "brave", "vivaldi", "opera", "firefox"} }

\* mutant: every app counts as a browser
is_browser_app_any(app) == TRUE

is_browser_app(app) == to_lowercase(file_name(app)) \in BrowserApps

EmptyMap == [k \in {} |-> 0]

\* the loop that fills latest_titles: or_insert_with, at most 64 entries
RECURSIVE latest_titles_loop(_, _, _)
latest_titles_loop(rows, rules, titles) ==
  IF rows = <<>> THEN titles
  ELSE LET r == Head(rows)
           ent == trim(unwrap(r.entity))
           t == trim(unwrap(r.title))
           key == IF r.event = "tab_active" THEN <<"domain", to_lowercase(ent)>>
                  ELSE <<"app", ent>>
       IN IF ent = <<>> \/ t = <<>> \/ decision_for(rules, r.event, ent) # "Allow"
          THEN latest_titles_loop(Tail(rows), rules, titles)
          ELSE LET titles1 == titles @@ (key :> t)
               IN IF Cardinality(DOMAIN titles1) >= 64 THEN titles1
                  ELSE latest_titles_loop(Tail(rows), rules, titles1)

\* WHERE title IS NOT NULL AND title != '' AND entity IS NOT NULL AND entity != ''
RECURSIVE where_titled(_)
where_titled(rows) ==
  IF rows = <<>> THEN <<>>
  ELSE (IF /\ Head(rows).title \notin {None, Some(<<>>)}
           /\ Head(rows).entity \notin {None, Some(<<>>)}
           /\ Head(rows).event \in {"tab_active", "app_active"}
        THEN <<Head(rows)>> ELSE <<>>) \o where_titled(Tail(rows))

\* an audio record is active while fresh and not followed by its stop marker
audio_active(audio, stop, t, ttl) ==
  /\ is_some(audio)
  /\ ~(is_some(age_of(audio, t)) /\ unwrap(age_of(audio, t)) > ttl)
  /\ ~(/\ is_some(stop)
       /\ is_some(Rfc3339Parse(unwrap(audio).ts))
       /\ is_some(Rfc3339Parse(unwrap(stop).ts))
       /\ unwrap(Rfc3339Parse(unwrap(stop).ts)) >= unwrap(Rfc3339Parse(unwrap(audio).ts)))

load_now_snapshot(log, rules, s, t, limit) ==
  LET scan_limit == max(1, min(limit, 2000))
      desc == order_by_ts_desc(log)
      newest(kind, n) == first(visible_records(take(where_event(desc, {kind}), n), rules))
      latest_event == first(visible_records(take(desc, scan_limit), rules))
      app_active == newest("app_active", 50)
      tabs == visible_records(take(where_event(desc, {"tab_active"}), 200), rules)
      tab_focus == first_where_audio(tabs, FALSE)
      tab_audio == first_where_audio(tabs, TRUE)
      tab_audio_stop == newest("tab_audio_stop", 50)
      app_audio == newest("app_audio", 50)
      app_audio_stop == newest("app_audio_stop", 50)
      latest_titles == latest_titles_loop(take(where_titled(desc), scan_limit), rules, EmptyMap)
      focus_ttl_seconds == max(s.idle_cutoff_seconds, 10)
      audio_ttl_seconds == max(AUDIO_IDLE_CUTOFF_SECONDS, 10)
      tab_audio_active == audio_active(tab_audio, tab_audio_stop, t, audio_ttl_seconds)
      app_audio_active == audio_active(app_audio, app_audio_stop, t, audio_ttl_seconds)
      fresh(rec) == is_some(age_of(rec, t)) /\ unwrap(age_of(rec, t)) <= focus_ttl_seconds
      app_fresh == fresh(app_active)
      tab_fresh == fresh(tab_focus)
      now_focus_app == IF app_fresh THEN app_active ELSE None
      browser_focused ==
        \/ /\ is_some(now_focus_app)
           /\ is_some(unwrap(now_focus_app).entity)
           /\ is_browser_app(unwrap(unwrap(now_focus_app).entity))
        \/ is_none(now_focus_app) /\ tab_fresh
      now_using_tab == IF browser_focused THEN (IF tab_fresh THEN tab_focus ELSE None)
                       ELSE IF tab_audio_active THEN tab_audio
                       ELSE None
      now_background_audio == IF app_audio_active THEN app_audio ELSE None
  IN [server_ts |-> Rfc3339Format(t),
      focus_ttl_seconds |-> focus_ttl_seconds,
      audio_ttl_seconds |-> audio_ttl_seconds,
      latest_event_id |-> IF is_some(latest_event) THEN Some(unwrap(latest_event).id) ELSE None,
      latest_event |-> latest_event,
      latest_event_age_seconds |-> age_of(latest_event, t),
      app_active |-> app_active,
      app_active_age_seconds |-> age_of(app_active, t),
      tab_focus |-> tab_focus,
      tab_focus_age_seconds |-> age_of(tab_focus, t),
      tab_audio |-> tab_audio,
      tab_audio_stop |-> tab_audio_stop,
      tab_audio_age_seconds |-> age_of(tab_audio, t),
      tab_audio_active |-> tab_audio_active,
      app_audio |-> app_audio,
      app_audio_stop |-> app_audio_stop,
      app_audio_age_seconds |-> age_of(app_audio, t),
      app_audio_active |-> app_audio_active,
      now_focus_app |-> now_focus_app,
      now_using_tab |-> now_using_tab,
      now_background_audio |-> now_background_audio,
      latest_titles |-> latest_titles]

\* mutant: the range query returns the stored entity whatever the decision
hide_for_blocks_never(e, rules) == e

\* the match in list_events_between: Drop and Mask both keep the event,
\* with entity "__hidden__" and no title
hide_for_blocks(e, rules) ==
  IF decision_for(rules, e.event, e.entity) = "Allow" THEN e
  ELSE [e EXCEPT !.entity = HIDDEN, !.title = None]

\* mutant: the range query leaves out the rows a rule applies to
RECURSIVE events_for_blocks_skipping(_, _, _, _)
events_for_blocks_skipping(rows, start, end, rules) ==
  IF rows = <<>> THEN <<>>
  ELSE LET r == Head(rows)
           e == [ts |-> unwrap(Rfc3339Parse(r.ts)), off |-> r.ts.off, source |-> r.source,
                 event |-> r.event, entity |-> unwrap(r.entity), title |-> r.title,
                 activity |-> parse_activity_from_payload(r.payload_json)]
       IN (IF /\ TsText(r.ts) >= TsText(Rfc3339Format(start))
              /\ TsText(r.ts) < TsText(Rfc3339Format(end))
              /\ is_some(r.entity)
              /\ decision_for(rules, e.event, e.entity) = "Allow"
           THEN <<e>> ELSE <<>>)
          \o events_for_blocks_skipping(Tail(rows), start, end, rules)

\* WHERE ts >= ?1 AND ts < ?2 AND entity IS NOT NULL, as EventForBlocks
RECURSIVE events_for_blocks(_, _, _, _)
events_for_blocks(rows, start, end, rules) ==
  IF rows = <<>> THEN <<>>
  ELSE LET r == Head(rows)
           e == [ts |-> unwrap(Rfc3339Parse(r.ts)), off |-> r.ts.off, source |-> r.source,
                 event |-> r.event, entity |-> unwrap(r.entity), title |-> r.title,
                 activity |-> parse_activity_from_payload(r.payload_json)]
       IN (IF /\ TsText(r.ts) >= TsText(Rfc3339Format(start))
              /\ TsText(r.ts) < TsText(Rfc3339Format(end))
              /\ is_some(r.entity)
           THEN <<hide_for_blocks(e, rules)>> ELSE <<>>)
          \o events_for_blocks(Tail(rows), start, end, rules)

list_events_between(log, start, end, rules) ==
  events_for_blocks(order_by_ts_asc(log), start, end, rules)

TZ_OFFSET_MINUTES_MAX == 14 * 60
TZ_OFFSET_MINUTES_MIN == 0 - 14 * 60

normalize_tz_offset_minutes(v) ==
  max(TZ_OFFSET_MINUTES_MIN, min(IF is_none(v) THEN 0 ELSE unwrap(v), TZ_OFFSET_MINUTES_MAX))

\* a date "YYYY-MM-DD" is [valid, day]: day is its number since 1970-01-01
date_at(t, tz_minutes) == [valid |-> TRUE, day |-> (t + 60 * tz_minutes) \div SECONDS_PER_DAY]

\* mutant: the offset is added to the local midnight
parse_day_start_east_of_utc(date, tz_minutes) ==
  IF ~date.valid THEN None ELSE Some(date.day * SECONDS_PER_DAY + 60 * tz_minutes)

\* Date::with_hms(0, 0, 0).assume_offset(tz).to_offset(UTC)
parse_day_start_utc_for_offset(date, tz_minutes) ==
  IF ~date.valid THEN None ELSE Some(date.day * SECONDS_PER_DAY - 60 * tz_minutes)

\* UtcOffset::from_whole_seconds(minutes * 60), UTC when out of its range
tz_offset_from_minutes(minutes) ==
  IF 60 * minutes > 0 - 93600 /\ 60 * minutes < 93600 THEN minutes ELSE 0

\* the Gregorian calendar of time::Date
is_leap_year(y) == y % 4 = 0 /\ (y % 100 # 0 \/ y % 400 = 0)

days_in_month(y, m) ==
  IF m = 2 THEN (IF is_leap_year(y) THEN 29 ELSE 28)
  ELSE IF m \in {4, 6, 9, 11} THEN 30 ELSE 31

\* the number of the day y-m-d, counted from 1970-01-01
days_from_civil(y, m, d) ==
  LET y1 == IF m <= 2 THEN y - 1 ELSE y
      era == y1 \div 400
      yoe == y1 - era * 400
      doy == (153 * (IF m > 2 THEN m - 3 ELSE m + 9) + 2) \div 5 + d - 1
      doe == yoe * 365 + yoe \div 4 - yoe \div 100 + doy
  IN era * 146097 + doe - 719468

\* the text of a date is the sequence of its parts between '-': a part is
\* Some(n) when it is the decimal text of n, None when it is no number.
\* parse_day_start_utc_for_offset up to Date::from_calendar_date, as [valid, day]
parse_calendar_date(parts) ==
  IF /\ Len(parts) = 3
     /\ \A i \in 1..3 : is_some(parts[i])
     /\ unwrap(parts[1]) <= 9999
     /\ unwrap(parts[2]) \in 1..12
     /\ unwrap(parts[3]) <= 255
     /\ unwrap(parts[3]) \in 1..days_in_month(unwrap(parts[1]), unwrap(parts[2]))
  THEN [valid |-> TRUE,
        day |-> days_from_civil(unwrap(parts[1]), unwrap(parts[2]), unwrap(parts[3]))]
  ELSE [valid |-> FALSE, day |-> 0]

\* the day window of a BlocksQuery: Option<[start, end]>
day_window(q, t) ==
  LET tz == normalize_tz_offset_minutes(q.tz_offset_minutes)
      date == IF is_some(q.date) THEN unwrap(q.date) ELSE date_at(t, tz)
      day_start == parse_day_start_utc_for_offset(date, tz)
  IN IF is_none(day_start) THEN None
     ELSE Some([start |-> unwrap(day_start), end |-> unwrap(day_start) + SECONDS_PER_DAY])

\* the test that sends an event to the audio stream
is_audio_event(e) ==
  \/ e.event = "tab_active" /\ e.activity = Some(<<"audio">>)
  \/ e.event \in {"tab_audio_stop", "app_audio", "app_audio_stop"}

RECURSIVE select_stream(_, _)
select_stream(evs, audio) ==
  IF evs = <<>> THEN <<>>
  ELSE (IF is_audio_event(Head(evs)) = audio THEN <<Head(evs)>> ELSE <<>>)
       \o select_stream(Tail(evs), audio)

contains_youtube_dot(d) == \E i \in 1..(Len(d) - 1) : d[i] = "youtube" /\ d[i + 1] = "."

\* trim; on a youtube. domain strip a trailing " - YouTube"; trim
normalize_web_title(domain, raw) ==
  LET t == trim(raw)
  IN IF t = <<>> THEN <<>>
     ELSE IF contains_youtube_dot(to_lowercase(domain)) /\ t[Len(t)] = " - YouTube"
          THEN trim(SubSeq(t, 1, Len(t) - 1))
          ELSE t

\* mutant: the title is trimmed and nothing is stripped from it
normalized_title_unstripped(domain, raw, store_titles) ==
  IF ~store_titles \/ is_none(raw) \/ trim(unwrap(raw)) = <<>> THEN None
  ELSE Some(trim(unwrap(raw)))

normalized_title_for_domain(domain, raw, store_titles) ==
  IF ~store_titles \/ is_none(raw) \/ trim(unwrap(raw)) = <<>> THEN None
  ELSE IF normalize_web_title(domain, trim(unwrap(raw))) = <<>> THEN None
  ELSE Some(normalize_web_title(domain, trim(unwrap(raw))))

\* the current_* variables of the focus loops
NoFocus ==
  [app |-> None, app_title |-> None, domain |-> None, domain_title |-> None,
   domain_ts |-> None]

\* the match on cur.event in build_timeline_segments
timeline_track(f, cur) ==
  IF cur.event = "tab_active"
  THEN [f EXCEPT !.domain = Some(cur.entity), !.domain_title = cur.title,
                 !.domain_ts = Some(cur.ts)]
  ELSE [f EXCEPT !.app = Some(cur.entity), !.app_title = cur.title]

\* the match on cur.event in build_blocks
blocks_track(f, cur) ==
  CASE cur.event = "app_active" -> [f EXCEPT !.app = Some(cur.entity)]
    [] cur.event = "tab_active" ->
         [f EXCEPT !.domain = Some(cur.entity), !.domain_title = cur.title,
                   !.domain_ts = Some(cur.ts)]
    [] cur.event = "tab_audio_stop" ->
         [f EXCEPT !.domain = None, !.domain_title = None, !.domain_ts = None]
    [] cur.event = "app_audio_stop" -> [f EXCEPT !.app = None]
    [] OTHER -> [f EXCEPT !.app = Some(cur.entity)]

\* mutant: a domain seen DOMAIN_FRESHNESS_SECONDS ago is stale
resolve_entity_strict(f, at, app_titles) ==
  LET by_app == Some([kind |-> "app", entity |-> unwrap(f.app),
                      title |-> IF app_titles THEN f.app_title ELSE None])
      by_domain == Some([kind |-> "domain", entity |-> unwrap(f.domain),
                         title |-> f.domain_title])
  IN IF is_some(f.app)
     THEN IF /\ is_browser_app(unwrap(f.app))
             /\ is_some(f.domain) /\ is_some(f.domain_ts)
             /\ at - unwrap(f.domain_ts) < DOMAIN_FRESHNESS_SECONDS
          THEN by_domain
          ELSE by_app
     ELSE IF is_some(f.domain) THEN by_domain ELSE None

\* Option<(kind, entity, title)>: the fresh domain under a browser, else the
\* app, else the domain; app_titles: the timeline keeps the app's title
resolve_entity(f, at, app_titles) ==
  LET by_app == Some([kind |-> "app", entity |-> unwrap(f.app),
                      title |-> IF app_titles THEN f.app_title ELSE None])
      by_domain == Some([kind |-> "domain", entity |-> unwrap(f.domain),
                         title |-> f.domain_title])
  IN IF is_some(f.app)
     THEN IF /\ is_browser_app(unwrap(f.app))
             /\ is_some(f.domain) /\ is_some(f.domain_ts)
             /\ at - unwrap(f.domain_ts) <= DOMAIN_FRESHNESS_SECONDS
          THEN by_domain
          ELSE by_app
     ELSE IF is_some(f.domain) THEN by_domain ELSE None

push_or_merge_segment(out, seg) ==
  IF seg.end <= seg.start THEN out
  ELSE IF /\ out # <<>>
          /\ out[Len(out)].kind = seg.kind
          /\ out[Len(out)].entity = seg.entity
          /\ out[Len(out)].title = seg.title
          /\ out[Len(out)].activity = seg.activity
          /\ out[Len(out)].end = seg.start
       THEN [out EXCEPT ![Len(out)].end = seg.end]
       ELSE Append(out, seg)

next_ts_of(evs, i, t) == IF i < Len(evs) THEN evs[i + 1].ts ELSE t

\* the focus loop of build_timeline_segments from index i
RECURSIVE focus_segments(_, _, _, _, _, _)
focus_segments(fe, i, f, out, cutoff, t) ==
  IF i > Len(fe) THEN out
  ELSE LET cur == fe[i]
           next_ts == next_ts_of(fe, i, t)
           f1 == timeline_track(f, cur)
           raw_gap == next_ts - cur.ts
           resolved == resolve_entity(f1, cur.ts, TRUE)
           out1 == IF is_none(resolved) THEN out
                   ELSE push_or_merge_segment(out,
                          [kind |-> unwrap(resolved).kind,
                           entity |-> unwrap(resolved).entity,
                           title |-> unwrap(resolved).title,
                           activity |-> "focus",
                           start |-> cur.ts, end |-> cur.ts + min(raw_gap, cutoff)])
       IN IF next_ts <= cur.ts THEN focus_segments(fe, i + 1, f, out, cutoff, t)
          ELSE focus_segments(fe, i + 1, IF raw_gap > cutoff THEN NoFocus ELSE f1,
                              out1, cutoff, t)

\* mutant: a stop marker opens a segment like the event it stops
RECURSIVE audio_segments_from_stops(_, _, _, _, _)
audio_segments_from_stops(ae, i, out, cutoff, t) ==
  IF i > Len(ae) THEN out
  ELSE LET cur == ae[i]
           next_ts == next_ts_of(ae, i, t)
       IN IF next_ts <= cur.ts
          THEN audio_segments_from_stops(ae, i + 1, out, cutoff, t)
          ELSE audio_segments_from_stops(ae, i + 1,
                 push_or_merge_segment(out,
                   [kind |-> IF cur.event \in {"tab_active", "tab_audio_stop"}
                             THEN "domain" ELSE "app",
                    entity |-> cur.entity, title |-> cur.title, activity |-> "audio",
                    start |-> cur.ts, end |-> cur.ts + min(next_ts - cur.ts, cutoff)]),
                 cutoff, t)

\* the audio loop of build_timeline_segments from index i
RECURSIVE audio_segments(_, _, _, _, _)
audio_segments(ae, i, out, cutoff, t) ==
  IF i > Len(ae) THEN out
  ELSE LET cur == ae[i]
           next_ts == next_ts_of(ae, i, t)
       IN IF cur.event \notin {"tab_active", "app_audio"} \/ next_ts <= cur.ts
          THEN audio_segments(ae, i + 1, out, cutoff, t)
          ELSE audio_segments(ae, i + 1,
                 push_or_merge_segment(out,
                   [kind |-> IF cur.event = "tab_active" THEN "domain" ELSE "app",
                    entity |-> cur.entity, title |-> cur.title, activity |-> "audio",
                    start |-> cur.ts, end |-> cur.ts + min(next_ts - cur.ts, cutoff)]),
                 cutoff, t)

\* Vec::sort_by on start: stable
RECURSIVE sort_by_start(_)
sort_by_start(segs) ==
  IF segs = <<>> THEN <<>>
  ELSE LET i == CHOOSE k \in 1..Len(segs) :
                  /\ \A j \in 1..Len(segs) : segs[k].start <= segs[j].start
                  /\ \A j \in 1..(k - 1) : segs[j].start > segs[k].start
       IN <<segs[i]>> \o sort_by_start(remove_at(segs, i))

\* mutant: the focus walk does not clamp a gap
build_timeline_segments_unclamped(evs, s, t) ==
  LET default_idle_cutoff == max(s.idle_cutoff_seconds, 10)
      audio_idle_cutoff == min(default_idle_cutoff, AUDIO_IDLE_CUTOFF_SECONDS)
      focus_out == focus_segments(select_stream(evs, FALSE), 1, NoFocus, <<>>,
                                  SECONDS_PER_DAY, t)
      audio_out == audio_segments(select_stream(evs, TRUE), 1, <<>>, audio_idle_cutoff, t)
      all == sort_by_start(focus_out \o audio_out)
  IN [i \in 1..Len(all) |->
        [kind |-> all[i].kind, entity |-> all[i].entity, title |-> all[i].title,
         activity |-> Some(all[i].activity),
         start_ts |-> Rfc3339Format(all[i].start), end_ts |-> Rfc3339Format(all[i].end),
         seconds |-> all[i].end - all[i].start]]

build_timeline_segments(evs, s, t) ==
  LET default_idle_cutoff == max(s.idle_cutoff_seconds, 10)
      audio_idle_cutoff == min(default_idle_cutoff, AUDIO_IDLE_CUTOFF_SECONDS)
      focus_out == focus_segments(select_stream(evs, FALSE), 1, NoFocus, <<>>,
                                  default_idle_cutoff, t)
      audio_out == audio_segments(select_stream(evs, TRUE), 1, <<>>, audio_idle_cutoff, t)
      all == sort_by_start(focus_out \o audio_out)
  IN [i \in 1..Len(all) |->
        [kind |-> all[i].kind, entity |-> all[i].entity, title |-> all[i].title,
         activity |-> Some(all[i].activity),
         start_ts |-> Rfc3339Format(all[i].start), end_ts |-> Rfc3339Format(all[i].end),
         seconds |-> all[i].end - all[i].start]]

\* mutant: the entry is overwritten, not added to
bucket_add_overwrite(bucket, key, seconds) ==
  IF key \in DOMAIN bucket THEN [bucket EXCEPT ![key] = seconds]
  ELSE bucket @@ (key :> seconds)

\* HashMap<BucketKey, i64>: *bucket.entry(key).or_insert(0) += seconds
bucket_add(bucket, key, seconds) ==
  IF key \in DOMAIN bucket THEN [bucket EXCEPT ![key] = @ + seconds]
  ELSE bucket @@ (key :> seconds)

\* the block build_blocks is filling
NoBlock(start) ==
  [blocks |-> <<>>, current_start |-> start, current_end |-> start,
   start_off |-> 0, end_off |-> 0, seg_off |-> 0,
   active_seconds |-> 0, bucket |-> EmptyMap]

\* mutant: the block is closed one second after its last slice
close_block_late(b) ==
  [b EXCEPT !.blocks = Append(@, [start |-> b.current_start, end |-> b.current_end + 1,
                                  start_off |-> b.start_off, end_off |-> b.end_off,
                                  total_seconds |-> b.active_seconds, bucket |-> b.bucket,
                                  background |-> EmptyMap, background_seconds |-> 0])]

\* what finalize_block is called with; the background usage is attached later
close_block(b) ==
  [b EXCEPT !.blocks = Append(@, [start |-> b.current_start, end |-> b.current_end,
                                  start_off |-> b.start_off, end_off |-> b.end_off,
                                  total_seconds |-> b.active_seconds, bucket |-> b.bucket,
                                  background |-> EmptyMap, background_seconds |-> 0])]

\* the `while seg > 0` loop of build_blocks
RECURSIVE take_loop(_, _, _, _, _, _)
take_loop(b, f, seg, seg_start, block_len, store_titles) ==
  IF seg <= 0 THEN b
  ELSE LET resolved == resolve_entity(f, seg_start, FALSE)
           take_s == min(seg, block_len - b.active_seconds)
           key == [kind |-> unwrap(resolved).kind, entity |-> unwrap(resolved).entity,
                   title |-> IF unwrap(resolved).kind = "domain"
                             THEN normalized_title_for_domain(unwrap(resolved).entity,
                                    unwrap(resolved).title, store_titles)
                             ELSE None]
           b1 == IF is_none(resolved) THEN b
                 ELSE [b EXCEPT !.bucket = bucket_add(@, key, take_s),
                                !.active_seconds = @ + take_s,
                                !.current_end = seg_start + take_s,
                                !.end_off = b.seg_off]
           b2 == IF b1.active_seconds >= block_len
                 THEN [close_block(b1) EXCEPT !.current_start = b1.current_end,
                                              !.start_off = b1.end_off,
                                              !.bucket = EmptyMap, !.active_seconds = 0]
                 ELSE b1
       IN IF take_s <= 0 THEN b
          ELSE take_loop(b2, f, seg - take_s,
                         IF is_none(resolved) THEN seg_start ELSE seg_start + take_s,
                         block_len, store_titles)

\* the loop of build_blocks over the focus stream from index i
RECURSIVE block_loop(_, _, _, _, _, _, _)
block_loop(fe, i, f, b, idle_cutoff, s, t) ==
  IF i > Len(fe) THEN b
  ELSE LET cur == fe[i]
           next_ts == next_ts_of(fe, i, t)
           f1 == blocks_track(f, cur)
           raw_gap == next_ts - cur.ts
           next_off == IF i < Len(fe) THEN fe[i + 1].off ELSE 0
           b1 == take_loop([b EXCEPT !.seg_off = cur.off], f1, min(raw_gap, idle_cutoff), cur.ts,
                           max(s.block_seconds, 60), s.store_titles)
           b2 == [(IF b1.active_seconds > 0 THEN close_block(b1) ELSE b1)
                    EXCEPT !.current_start = next_ts, !.current_end = next_ts,
                           !.start_off = next_off, !.end_off = next_off,
                           !.bucket = EmptyMap, !.active_seconds = 0]
       IN IF next_ts <= cur.ts THEN block_loop(fe, i + 1, f, b, idle_cutoff, s, t)
          ELSE IF raw_gap > idle_cutoff THEN block_loop(fe, i + 1, NoFocus, b2, idle_cutoff, s, t)
          ELSE block_loop(fe, i + 1, f1, b1, idle_cutoff, s, t)

\* mutant: the sweep also passes the block that holds seg_start
RECURSIVE skip_blocks_started(_, _, _)
skip_blocks_started(blocks, bi, seg_start) ==
  IF bi <= Len(blocks) /\ blocks[bi].start <= seg_start
  THEN skip_blocks_started(blocks, bi + 1, seg_start) ELSE bi

\* `while bi < block_times.len() && block_times[bi].1 <= seg_start`
RECURSIVE skip_blocks(_, _, _)
skip_blocks(blocks, bi, seg_start) ==
  IF bi <= Len(blocks) /\ blocks[bi].end <= seg_start
  THEN skip_blocks(blocks, bi + 1, seg_start) ELSE bi

\* `while j < block_times.len() && block_times[j].0 < seg_end`
RECURSIVE overlap_loop(_, _, _, _, _)
overlap_loop(blocks, j, seg_start, seg_end, key) ==
  IF j > Len(blocks) \/ blocks[j].start >= seg_end THEN blocks
  ELSE LET sec == min(seg_end, blocks[j].end) - max(seg_start, blocks[j].start)
       IN overlap_loop(
            IF sec > 0
            THEN [blocks EXCEPT ![j].background = bucket_add(@, key, sec),
                                ![j].background_seconds = @ + sec]
            ELSE blocks,
            j + 1, seg_start, seg_end, key)

\* the loop of attach_background_audio over the audio stream from index i
RECURSIVE attach_background_audio(_, _, _, _, _, _, _)
attach_background_audio(blocks, ae, i, bi, store_titles, idle_cutoff, t) ==
  IF i > Len(ae) THEN blocks
  ELSE LET cur == ae[i]
           next_ts == next_ts_of(ae, i, t)
           seg_end == cur.ts + min(next_ts - cur.ts, idle_cutoff)
           key == [kind |-> IF cur.event = "app_audio" THEN "app" ELSE "domain",
                   entity |-> cur.entity,
                   title |-> IF cur.event = "tab_active"
                             THEN normalized_title_for_domain(cur.entity, cur.title,
                                                              store_titles)
                             ELSE None]
           bi1 == skip_blocks(blocks, bi, cur.ts)
       IN IF next_ts <= cur.ts \/ cur.event \in {"tab_audio_stop", "app_audio_stop"}
          THEN attach_background_audio(blocks, ae, i + 1, bi, store_titles, idle_cutoff, t)
          ELSE attach_background_audio(overlap_loop(blocks, bi1, cur.ts, seg_end, key),
                                       ae, i + 1, bi1, store_titles, idle_cutoff, t)

\* `if active_seconds > 0 { blocks.push(finalize_block(..)) }` after the loop
push_last_block(b) ==
  IF b.active_seconds > 0 THEN close_block(b).blocks ELSE b.blocks

\* `if !audio_events.is_empty() && !blocks.is_empty() { attach_background_audio(..) }`
with_background_audio(blocks, audio_events, store_titles, audio_idle_cutoff, t) ==
  IF audio_events # <<>> /\ blocks # <<>>
  THEN attach_background_audio(blocks, audio_events, 1, 1, store_titles, audio_idle_cutoff, t)
  ELSE blocks

\* build_blocks up to the order of the top items: the blocks with their buckets
build_blocks(evs, s, t) ==
  LET focus0 == select_stream(evs, FALSE)
      audio0 == select_stream(evs, TRUE)
      audio_primary == focus0 = <<>>
      focus_events == IF audio_primary THEN audio0 ELSE focus0
      audio_events == IF audio_primary THEN <<>> ELSE audio0
      default_idle_cutoff == max(s.idle_cutoff_seconds, 10)
      audio_idle_cutoff == min(default_idle_cutoff, AUDIO_IDLE_CUTOFF_SECONDS)
      idle_cutoff == IF audio_primary THEN audio_idle_cutoff ELSE default_idle_cutoff
  IN IF focus_events = <<>> THEN <<>>
     ELSE with_background_audio(
            push_last_block(
              block_loop(focus_events, 1, NoFocus,
                         [NoBlock(focus_events[1].ts)
                            EXCEPT !.start_off = focus_events[1].off,
                                   !.end_off = focus_events[1].off],
                         idle_cutoff, s, t)),
            audio_events, s.store_titles, audio_idle_cutoff, t)

\* the TopItem of each key of a bucket
top_item_set(bucket) ==
  { [kind |-> k.kind, entity |-> k.entity,
     title |-> IF k.kind = "domain" THEN k.title ELSE None,
     seconds |-> bucket[k]] : k \in DOMAIN bucket }

RECURSIVE iteration_orders(_)
iteration_orders(S) ==
  IF S = {} THEN {<<>>}
  ELSE UNION { { <<x>> \o p : p \in iteration_orders(S \ {x}) } : x \in S }

\* the top five by seconds.  The stable sort starts from the HashMap's
\* iteration order, which the build leaves open: every order of the items
\* of equal seconds is a possible result.
top_items(bucket) ==
  { take(p, 5) : p \in { q \in iteration_orders(top_item_set(bucket)) :
                           \A i \in 1..(Len(q) - 1) : q[i].seconds >= q[i + 1].seconds } }

\* the BlockSummary values finalize_block and attach_background_audio can
\* give for one block; no review is stored
finalize_block(blk) ==
  { [id |-> TextAt(blk.start, blk.start_off), start_ts |-> TextAt(blk.start, blk.start_off),
     end_ts |-> TextAt(blk.end, blk.end_off), total_seconds |-> blk.total_seconds,
     top_items |-> ti,
     background_top_items |-> bg,
     background_seconds |-> IF blk.background_seconds > 0
                            THEN Some(blk.background_seconds) ELSE None,
     review |-> None] :
      ti \in top_items(blk.bucket),
      bg \in IF blk.background_seconds > 0 THEN top_items(blk.background) ELSE {<<>>} }

\* the Vec<BlockSummary> values a list of blocks can be answered with
RECURSIVE block_summaries(_)
block_summaries(blocks) ==
  IF blocks = <<>> THEN {<<>>}
  ELSE { <<b>> \o rest : b \in finalize_block(Head(blocks)),
                         rest \in block_summaries(Tail(blocks)) }

REVIEW_MIN_SECONDS_MIN == 60
REVIEW_MIN_SECONDS_MAX == 4 * 60 * 60
REVIEW_LAST_BLOCK_END_GRACE_SECONDS == 30

\* INSERT INTO block_reviews ... ON CONFLICT(block_id) DO UPDATE; tags_json is
\* the JSON text of the tag array
upsert_review(table, r, skip_reason, tags_json, updated_at) ==
  {x \in table : x.block_id # r.block_id}
    \cup {[block_id |-> r.block_id, skipped |-> IF r.skipped THEN 1 ELSE 0,
           skip_reason |-> skip_reason, doing |-> r.doing, output |-> r.output,
           next |-> r.next, tags_json |-> tags_json, updated_at |-> updated_at]}

\* SELECT ... FROM block_reviews WHERE block_id = ?1, as Option<BlockReview>
get_review(table, block_id) ==
  IF \E x \in table : x.block_id = block_id
  THEN LET row == CHOOSE x \in table : x.block_id = block_id
       IN Some([skipped |-> row.skipped # 0, skip_reason |-> row.skip_reason,
                doing |-> row.doing, output |-> row.output, next |-> row.next,
                tags |-> IF row.tags_json.wf THEN row.tags_json.arr ELSE <<>>,
                updated_at |-> row.updated_at])
  ELSE None

\* mutant: the stored reviews are not looked up
attach_reviews_none(table, blocks) ==
  [i \in 1..Len(blocks) |-> blocks[i]]

attach_reviews(table, blocks) ==
  [i \in 1..Len(blocks) |->
     IF is_some(get_review(table, blocks[i].id))
     THEN [blocks[i] EXCEPT !.review = get_review(table, blocks[i].id)]
     ELSE blocks[i]]

\* Option<String>::as_deref().unwrap_or("")
unwrap_or_empty(o) == IF is_some(o) THEN unwrap(o) ELSE <<>>

\* mutant: a field of blanks counts as filled in
block_is_reviewed_untrimmed(r) ==
  IF r.skipped THEN TRUE
  ELSE IF unwrap_or_empty(r.doing) # <<>> THEN TRUE
  ELSE IF unwrap_or_empty(r.output) # <<>> THEN TRUE
  ELSE IF unwrap_or_empty(r.next) # <<>> THEN TRUE
  ELSE r.tags # <<>>

block_is_reviewed(r) ==
  IF r.skipped THEN TRUE
  ELSE IF trim(unwrap_or_empty(r.doing)) # <<>> THEN TRUE
  ELSE IF trim(unwrap_or_empty(r.output)) # <<>> THEN TRUE
  ELSE IF trim(unwrap_or_empty(r.next)) # <<>> THEN TRUE
  ELSE r.tags # <<>>

\* mutant: the last block is returned whenever it is reviewable
RECURSIVE due_loop_no_grace(_, _, _, _, _)
due_loop_no_grace(blocks, i, min_seconds, block_seconds, t) ==
  IF i < 1 THEN None
  ELSE LET b == blocks[i]
       IN IF b.total_seconds < min_seconds
          THEN due_loop_no_grace(blocks, i - 1, min_seconds, block_seconds, t)
          ELSE IF is_some(b.review) /\ block_is_reviewed(unwrap(b.review))
          THEN due_loop_no_grace(blocks, i - 1, min_seconds, block_seconds, t)
          ELSE Some(b)

\* the loop `for i in (0..blocks.len()).rev()` of find_due_block from index i
RECURSIVE due_loop(_, _, _, _, _)
due_loop(blocks, i, min_seconds, block_seconds, t) ==
  IF i < 1 THEN None
  ELSE LET b == blocks[i]
           has_next == i < Len(blocks)
           end == Rfc3339Parse(b.end_ts)
       IN IF b.total_seconds < min_seconds
          THEN due_loop(blocks, i - 1, min_seconds, block_seconds, t)
          ELSE IF is_some(b.review) /\ block_is_reviewed(unwrap(b.review))
          THEN due_loop(blocks, i - 1, min_seconds, block_seconds, t)
          ELSE IF has_next THEN Some(b)
          ELSE IF b.total_seconds >= block_seconds THEN Some(b)
          ELSE IF is_some(end) /\ t - unwrap(end) > REVIEW_LAST_BLOCK_END_GRACE_SECONDS
          THEN Some(b)
          ELSE due_loop(blocks, i - 1, min_seconds, block_seconds, t)

\* mutant: the first block in chronological order that the loop would return
RECURSIVE due_loop_forward(_, _, _, _, _)
due_loop_forward(blocks, i, min_seconds, block_seconds, t) ==
  IF i > Len(blocks) THEN None
  ELSE LET b == blocks[i]
           end == Rfc3339Parse(b.end_ts)
       IN IF /\ b.total_seconds >= min_seconds
             /\ ~(is_some(b.review) /\ block_is_reviewed(unwrap(b.review)))
             /\ \/ i < Len(blocks)
                \/ b.total_seconds >= block_seconds
                \/ is_some(end) /\ t - unwrap(end) > REVIEW_LAST_BLOCK_END_GRACE_SECONDS
          THEN Some(b)
          ELSE due_loop_forward(blocks, i + 1, min_seconds, block_seconds, t)

find_due_block_earliest(blocks, s, t) ==
  IF blocks = <<>> THEN None
  ELSE due_loop_forward(blocks, 1,
                max(REVIEW_MIN_SECONDS_MIN, min(s.review_min_seconds, REVIEW_MIN_SECONDS_MAX)),
                max(s.block_seconds, 60), t)

find_due_block(blocks, s, t) ==
  IF blocks = <<>> THEN None
  ELSE due_loop(blocks, Len(blocks),
                max(REVIEW_MIN_SECONDS_MIN, min(s.review_min_seconds, REVIEW_MIN_SECONDS_MAX)),
                max(s.block_seconds, 60), t)

---------------------------------------------------------------------------
(* Handlers as actions.  last is the request just served and its response. *)

MaxLog == 2
MaxNow == 90
TickSteps == {30}

\* the data of a response: the field the handler fills, the others empty
NoData ==
  [events |-> <<>>, now |-> None, timeline |-> <<>>, blocks |-> <<>>, due |-> None,
   deleted |-> None]

\* auto_resumed: tracking_is_paused rewrote the tracking_state row
Served(op, payload, out, status, auto_resumed) ==
  [op |-> op, payload |-> payload, ok |-> out.ok, error |-> out.error,
   stored |-> out.stored, status |-> status, auto_resumed |-> auto_resumed,
   data |-> NoData]

\* a read answered with ok and its data
Answered(op, data) ==
  [op |-> op, payload |-> None, ok |-> TRUE, error |-> "", stored |-> FALSE,
   status |-> None, auto_resumed |-> FALSE, data |-> data]

\* the ids of the rows of a log
IdsOf(log) == {log[i].id : i \in DOMAIN log}

PostEvent(payload) ==
  LET out == post_event(payload, events, sqlite_sequence, tracking_state,
                        privacy_rules, settings, now)
  IN /\ out.stored => Len(events) < MaxLog
     /\ events' = out.events
     /\ sqlite_sequence' = out.sqlite_sequence
     /\ tracking_state' = out.tracking_state
     /\ last' = Served("post_event", Some(payload), out, None,
                       out.tracking_state # tracking_state)
     /\ issued' = issued \cup IdsOf(out.events)
     /\ UNCHANGED <<now, privacy_rules, settings, block_reviews,
                    reports, app_settings, inflight, collector, scheduler>>

GetTrackingStatus ==
  LET tp == tracking_is_paused(tracking_state, now)
  IN /\ tracking_state' = tp.row
     /\ last' = Served("get_tracking_status", None,
                       [ok |-> TRUE, error |-> "", stored |-> FALSE],
                       Some(load_tracking_status(tp.row)), tp.row # tracking_state)
     /\ UNCHANGED <<now, events, sqlite_sequence, privacy_rules, settings, block_reviews, aux>>

\* post_tracking_pause: Option<paused_until_ts> to store, or the error code
pause_until(req, t) ==
  IF is_some(req.until_ts)
  THEN IF is_none(Rfc3339Parse(unwrap(req.until_ts)))
       THEN [error |-> "invalid_until_ts", until |-> None]
       ELSE [error |-> "", until |-> req.until_ts]
  ELSE IF is_some(req.minutes)
  THEN IF unwrap(req.minutes) <= 0
       THEN [error |-> "invalid_minutes", until |-> None]
       ELSE [error |-> "", until |-> Some(Rfc3339Format(t + 60 * unwrap(req.minutes)))]
  ELSE [error |-> "", until |-> None]

PostTrackingPause(req) ==
  LET pu == pause_until(req, now)
      row == set_tracking_pause(pu.until, Rfc3339Format(now))
  IN IF pu.error # ""
     THEN /\ last' = Served("post_tracking_pause", None,
                            [ok |-> FALSE, error |-> pu.error, stored |-> FALSE], None, FALSE)
          /\ UNCHANGED <<now, tracking_state, events, sqlite_sequence,
                         privacy_rules, settings, block_reviews, aux>>
     ELSE /\ tracking_state' = row
          /\ last' = Served("post_tracking_pause", None,
                            [ok |-> TRUE, error |-> "", stored |-> FALSE],
                            Some(load_tracking_status(row)), FALSE)
          /\ UNCHANGED <<now, events, sqlite_sequence, privacy_rules, settings, block_reviews, aux>>

PostTrackingResume ==
  LET row == set_tracking_resume(Rfc3339Format(now))
  IN /\ tracking_state' = row
     /\ last' = Served("post_tracking_resume", None,
                       [ok |-> TRUE, error |-> "", stored |-> FALSE],
                       Some(load_tracking_status(row)), FALSE)
     /\ UNCHANGED <<now, events, sqlite_sequence, privacy_rules, settings, block_reviews, aux>>

\* upsert_privacy_rule: INSERT ... ON CONFLICT(kind, value) DO UPDATE SET action
upsert_privacy_rule(rules, kind, value, action) ==
  {r \in rules : ~(r.kind = kind /\ r.value = value)}
    \cup {[kind |-> kind, value |-> value, action |-> action]}

\* post_privacy_rule on the trimmed, lower-cased kind and action
PostPrivacyRule(kind, raw_value, action) ==
  LET value0 == trim(raw_value)
      value == IF kind = "domain" THEN to_lowercase(value0) ELSE value0
      error == IF kind = "" THEN "missing_kind"
               ELSE IF value0 = <<>> THEN "missing_value"
               ELSE IF kind \notin {"domain", "app"} THEN "invalid_kind"
               ELSE IF action \notin {"drop", "mask"} THEN "invalid_action"
               ELSE ""
  IN /\ privacy_rules' = IF error = "" THEN upsert_privacy_rule(privacy_rules, kind, value, action)
                         ELSE privacy_rules
     /\ last' = Served("post_privacy_rule", None,
                       [ok |-> error = "", error |-> error, stored |-> FALSE], None, FALSE)
     /\ UNCHANGED <<now, tracking_state, events, sqlite_sequence, settings, block_reviews, aux>>

\* delete_privacy_rule for the id of an existing row
DeletePrivacyRule(r) ==
  /\ r \in privacy_rules
  /\ privacy_rules' = privacy_rules \ {r}
  /\ last' = Served("delete_privacy_rule", None,
                    [ok |-> TRUE, error |-> "", stored |-> FALSE], None, FALSE)
  /\ UNCHANGED <<now, tracking_state, events, sqlite_sequence, settings, block_reviews, aux>>

\* post_data_wipe: DELETE FROM events, block_reviews and reports, and the
\* reset of the AUTOINCREMENT sequence of events
PostDataWipe ==
  /\ events' = <<>>
  /\ block_reviews' = {}
  /\ reports' = {}
  /\ sqlite_sequence' = 0
  /\ last' = Served("post_data_wipe", None,
                    [ok |-> TRUE, error |-> "", stored |-> FALSE], None, FALSE)
  /\ UNCHANGED <<now, tracking_state, privacy_rules, settings,
                 app_settings, inflight, collector, scheduler, issued>>

\* get_events: the newest q.limit rows (1..500) after the privacy decision
GetEvents(q) ==
  /\ last' = Answered("get_events",
               [NoData EXCEPT !.events = list_events(events, max(1, min(q.limit, 500)),
                                                     privacy_rules)])
  /\ UNCHANGED <<now, tracking_state, events, sqlite_sequence, privacy_rules,
                 settings, block_reviews, aux>>

GetNow(q) ==
  /\ last' = Answered("get_now",
               [NoData EXCEPT !.now = Some(load_now_snapshot(events, privacy_rules,
                                                             settings, now, q.limit))])
  /\ UNCHANGED <<now, tracking_state, events, sqlite_sequence, privacy_rules,
                 settings, block_reviews, aux>>

InvalidDate(op) ==
  Served(op, None, [ok |-> FALSE, error |-> "invalid_date", stored |-> FALSE], None, FALSE)

GetTimelineDay(q) ==
  LET w == day_window(q, now)
      evs == list_events_between(events, unwrap(w).start, unwrap(w).end, privacy_rules)
  IN /\ last' = IF is_none(w) THEN InvalidDate("get_timeline_day")
                ELSE Answered("get_timeline_day",
                       [NoData EXCEPT !.timeline =
                          build_timeline_segments(evs, settings, min(now, unwrap(w).end))])
     /\ UNCHANGED <<now, tracking_state, events, sqlite_sequence, privacy_rules,
                    settings, block_reviews, aux>>

GetBlocksToday(q) ==
  LET w == day_window(q, now)
      evs == list_events_between(events, unwrap(w).start, unwrap(w).end, privacy_rules)
  IN /\ IF is_none(w) THEN last' = InvalidDate("get_blocks_today")
        ELSE \E bs \in block_summaries(build_blocks(evs, settings, min(now, unwrap(w).end))) :
               last' = Answered("get_blocks_today",
                         [NoData EXCEPT !.blocks = attach_reviews(block_reviews, bs)])
     /\ UNCHANGED <<now, tracking_state, events, sqlite_sequence, privacy_rules,
                    settings, block_reviews, aux>>

\* get_blocks_due: the clock is read once, before the log
GetBlocksDue(q) ==
  LET w == day_window(q, now)
      t == min(now, unwrap(w).end)
      evs == list_events_between(events, unwrap(w).start, unwrap(w).end, privacy_rules)
  IN /\ IF is_none(w) THEN last' = InvalidDate("get_blocks_due")
        ELSE \E bs \in block_summaries(build_blocks(evs, settings, t)) :
               last' = Answered("get_blocks_due",
                         [NoData EXCEPT !.due =
                            find_due_block(attach_reviews(block_reviews, bs), settings, t)])
     /\ UNCHANGED <<now, tracking_state, events, sqlite_sequence, privacy_rules,
                    settings, block_reviews, aux>>

\* str::trim().is_empty() on a text held as [wf, inst, off]: the texts that
\* are no timestamp are numbered by inst, the blank ones below zero
text_is_blank(s) == ~s.wf /\ s.inst < 0
BlankText == [wf |-> FALSE, inst |-> 0 - 1, off |-> 0]

\* serde_json::to_string of a Vec<String>: the text of a JSON array
tags_to_json(tags) == [wf |-> TRUE, arr |-> tags]

\* post_block_review; r.skip_reason is kept only with r.skipped, trimmed
\* and non-empty
PostBlockReview(r) ==
  LET skip_reason == IF r.skipped /\ is_some(r.skip_reason)
                        /\ trim(unwrap(r.skip_reason)) # <<>>
                     THEN Some(trim(unwrap(r.skip_reason))) ELSE None
      missing == text_is_blank(r.block_id)
  IN /\ block_reviews' = IF missing THEN block_reviews
                         ELSE upsert_review(block_reviews, r, skip_reason,
                                            tags_to_json(r.tags), Rfc3339Format(now))
     /\ last' = Served("post_block_review", None,
                       [ok |-> ~missing,
                        error |-> IF missing THEN "missing_block_id" ELSE "",
                        stored |-> FALSE], None, FALSE)
     /\ UNCHANGED <<now, tracking_state, events, sqlite_sequence, privacy_rules, settings, aux>>

\* DELETE FROM events WHERE ts >= ?1 AND ts < ?2, on the TEXT column
RECURSIVE delete_events_between(_, _, _)
delete_events_between(rows, start_s, end_s) ==
  IF rows = <<>> THEN <<>>
  ELSE (IF TsText(Head(rows).ts) >= TsText(start_s) /\ TsText(Head(rows).ts) < TsText(end_s)
        THEN <<>> ELSE <<Head(rows)>>)
       \o delete_events_between(Tail(rows), start_s, end_s)

\* post_data_delete_day: the events and the reviews of the day window, and
\* the reports whose period holds the date (dates are written zero-padded,
\* so their texts compare as their days do)
PostDataDeleteDay(req) ==
  LET tz_offset_minutes == normalize_tz_offset_minutes(req.tz_offset_minutes)
      date == parse_calendar_date(req.date)
      day_start == parse_day_start_utc_for_offset(date, tz_offset_from_minutes(tz_offset_minutes))
      day_end == unwrap(day_start) + SECONDS_PER_DAY
      start_s == Rfc3339Format(unwrap(day_start))
      end_s == Rfc3339Format(day_end)
      kept == delete_events_between(events, start_s, end_s)
      reviews == {x \in block_reviews :
                    x.block_id.wf /\ TsText(x.block_id) >= TsText(start_s)
                                 /\ TsText(x.block_id) < TsText(end_s)}
      gone == {x \in reports : x.period_start <= date.day /\ x.period_end >= date.day}
  IN IF is_none(day_start)
     THEN /\ last' = [InvalidDate("post_data_delete_day") EXCEPT !.payload = Some(req)]
          /\ UNCHANGED <<now, tracking_state, events, sqlite_sequence, privacy_rules,
                         settings, block_reviews, aux>>
     ELSE /\ events' = kept
          /\ block_reviews' = block_reviews \ reviews
          /\ reports' = reports \ gone
          /\ last' = [Answered("post_data_delete_day",
                         [NoData EXCEPT !.deleted =
                            Some([date |-> req.date, tz_offset_minutes |-> tz_offset_minutes,
                                  start_ts |-> start_s, end_ts |-> end_s,
                                  events_deleted |-> Len(events) - Len(kept),
                                  reviews_deleted |-> Cardinality(reviews),
                                  reports_deleted |-> Cardinality(gone)])])
                       EXCEPT !.payload = Some(req)]
          /\ UNCHANGED <<now, tracking_state, sqlite_sequence, privacy_rules, settings,
                         app_settings, inflight, collector, scheduler, issued>>

\* post_block_delete: the events of [start, end) and the review of the block
\* that starts at start; the two bounds are written back as they were sent
PostBlockDelete(req) ==
  LET filled(o) == is_some(o) /\ ~text_is_blank(unwrap(o))
      start_ts == IF filled(req.start_ts) THEN req.start_ts
                  ELSE IF filled(req.block_id) THEN req.block_id ELSE None
      start == Rfc3339Parse(unwrap(start_ts))
      end == IF filled(req.end_ts) THEN Rfc3339Parse(unwrap(req.end_ts))
             ELSE Some(unwrap(start) + max(settings.block_seconds, 60))
      error == IF is_none(start_ts) THEN "missing_start_ts"
               ELSE IF is_none(start) THEN "invalid_start_ts"
               ELSE IF is_none(end) THEN "invalid_end_ts"
               ELSE IF unwrap(end) <= unwrap(start) THEN "invalid_range"
               ELSE ""
      start_s == unwrap(start_ts)
      end_s == IF filled(req.end_ts) THEN unwrap(req.end_ts)
               ELSE TextAt(unwrap(end), start_s.off)
      kept == delete_events_between(events, start_s, end_s)
      reviews == {x \in block_reviews : x.block_id = start_s}
  IN IF error # ""
     THEN /\ last' = Served("post_block_delete", None,
                            [ok |-> FALSE, error |-> error, stored |-> FALSE], None, FALSE)
          /\ UNCHANGED <<now, tracking_state, events, sqlite_sequence, privacy_rules,
                         settings, block_reviews, aux>>
     ELSE /\ events' = kept
          /\ block_reviews' = block_reviews \ reviews
          /\ last' = Answered("post_block_delete",
                        [NoData EXCEPT !.deleted =
                           Some([start_ts |-> start_s, end_ts |-> end_s,
                                 events_deleted |-> Len(events) - Len(kept),
                                 reviews_deleted |-> Cardinality(reviews)])])
          /\ UNCHANGED <<now, tracking_state, sqlite_sequence, privacy_rules, settings, aux>>

\* the wall clock
Tick ==
  \E d \in TickSteps :
    /\ now + d <= MaxNow
    /\ now' = now + d
    /\ UNCHANGED <<tracking_state, events, sqlite_sequence, privacy_rules, settings,
                 block_reviews, last, aux>>

---------------------------------------------------------------------------
(* Inputs *)

Str(t) == <<t>>
YoutubeCom == <<"youtube", ".", "com">>
MYoutubeCom == <<"m", ".", "youtube", ".", "com">>
ChromeExe == <<"chrome", ".", "exe">>

Payload(v, ts, event, domain, app, title, exePath, pid, activity) ==
  [v |-> v, ts |-> ts, source |-> "collector", event |-> event, domain |-> domain,
   app |-> app, title |-> title, exePath |-> exePath, pid |-> pid,
   activity |-> activity, masked |-> None]

\* main() defaults: store_titles and store_exe_path off
DefaultSettings ==
  [block_seconds |-> 2700, idle_cutoff_seconds |-> 300, store_titles |-> FALSE,
   store_exe_path |-> FALSE, review_min_seconds |-> 300,
   review_notify_repeat_minutes |-> 10, review_notify_when_paused |-> FALSE,
   review_notify_when_idle |-> FALSE]

NoRequest ==
  [op |-> "start", payload |-> None, ok |-> TRUE, error |-> "", stored |-> FALSE,
   status |-> None, auto_resumed |-> FALSE, data |-> NoData]

\* a tracking_state row with an unparseable deadline (the "Corrupted row" arm)
CorruptedTrackingState ==
  [paused |-> TRUE, paused_until_ts |-> Some(MalformedTs), updated_at |-> EpochTs]

\* what the collectors post in the tracking scenario: two valid events and
\* one of each kind post_event rejects
TrackEvents(t) ==
  LET tab(v, ts, d) == Payload(v, ts, "tab_active", d, None, None, None, None, None)
      yt == Some(JStr(YoutubeCom))
      one == Some(JNum(1))
  IN { tab(one, Rfc3339Format(t), yt),
       Payload(one, Rfc3339Format(t), "app_active", None, Some(JStr(ChromeExe)),
               None, None, None, None),
       tab(None, Rfc3339Format(t), yt),
       tab(Some(JNum(0)), Rfc3339Format(t), yt),
       tab(one, MalformedTs, yt),
       tab(Some(JNum(0)), MalformedTs, yt),
       tab(one, Rfc3339Format(t), None) }

PauseRequests(t) ==
  { [minutes |-> None, until_ts |-> None],
    [minutes |-> Some(1), until_ts |-> None],
    [minutes |-> Some(0), until_ts |-> None],
    [minutes |-> None, until_ts |-> Some(MalformedTs)],
    [minutes |-> Some(1), until_ts |-> Some(Rfc3339Format(t))],
    [minutes |-> None, until_ts |-> Some(Rfc3339Format(t + 30))] }

\* no handler in flight and none entered yet
NoHandlers == [handlers |-> {}, entered |-> 0, returned |-> {}]

\* the collector and the scheduler not started, no handler in flight, no
\* report generated, and no app_settings row (main() then keeps its defaults)
InitAux ==
  /\ reports = {}
  /\ app_settings = None
  /\ inflight = NoHandlers
  /\ collector = None
  /\ scheduler = None
  /\ issued = IdsOf(events)

Init ==
  /\ now = 0
  /\ tracking_state \in {InitialTrackingState, CorruptedTrackingState}
  /\ events = <<>>
  /\ sqlite_sequence = 0
  /\ privacy_rules = {}
  /\ settings = DefaultSettings
  /\ block_reviews = {}
  /\ last = NoRequest
  /\ InitAux

Next ==
  \/ \E p \in TrackEvents(now) : PostEvent(p)
  \/ GetTrackingStatus
  \/ \E req \in PauseRequests(now) : PostTrackingPause(req)
  \/ PostTrackingResume
  \/ \E a \in {"drop", "hide"} : PostPrivacyRule("domain", YoutubeCom, a)
  \/ \E r \in privacy_rules : DeletePrivacyRule(r)
  \/ PostDataWipe
  \/ Tick

Spec == Init /\ [][Next]_vars

---------------------------------------------------------------------------
(* One event posted to an empty log, for every event shape, rule table and *)
(* privacy setting.  post_event never reads the log, so the empty log      *)
(* stands for any; a wipe makes room for the next event.                   *)

Rule(kind, value, action) == [kind |-> kind, value |-> value, action |-> action]

EventKinds ==
  {"tab_active", "tab_audio_stop", "app_active", "app_audio", "app_audio_stop"}

\* v and ts: valid, a version below 1, an unparseable ts
VersionAndTs(t) ==
  { <<Some(JNum(1)), Rfc3339Format(t)>>,
    <<Some(JNum(0)), Rfc3339Format(t)>>,
    <<Some(JNum(1)), MalformedTs>> }

IngestEvents(t) ==
  { Payload(vt[1], vt[2], k, d, a, ti, x, pid, None) :
      vt \in VersionAndTs(t),
      k \in EventKinds \cup {"custom"},
      d \in {None, Some(JNull), Some(JStr(<<" ">>)), Some(JStr(MYoutubeCom))},
      a \in {None, Some(JNull), Some(JStr(<<" ">>)), Some(JStr(ChromeExe))},
      ti \in {None, Some(JStr(<<"Inbox">>))},
      x \in {None, Some(JStr(<<"C:", "\\", "chrome", ".", "exe">>))},
      pid \in {None, Some(JNum(4242))} }

IngestRuleTables ==
  { d \cup a :
      d \in {{}, {Rule("domain", YoutubeCom, "drop")}, {Rule("domain", YoutubeCom, "mask")}},
      a \in {{}, {Rule("app", ChromeExe, "drop")}, {Rule("app", ChromeExe, "mask")}} }

IngestSettings ==
  { [DefaultSettings EXCEPT !.store_titles = st, !.store_exe_path = sx] :
      st \in BOOLEAN, sx \in BOOLEAN }

InitIngest ==
  /\ now = 0
  /\ tracking_state = InitialTrackingState
  /\ events = <<>>
  /\ sqlite_sequence = 0
  /\ privacy_rules \in IngestRuleTables
  /\ settings \in IngestSettings
  /\ block_reviews = {}
  /\ last = NoRequest
  /\ InitAux

NextIngest ==
  \/ last.op # "post_event" /\ \E p \in IngestEvents(now) : PostEvent(p)
  \/ PostDataWipe

SpecIngest == InitIngest /\ [][NextIngest]_vars

---------------------------------------------------------------------------
(* Privacy rules against domains of one to four labels.  The log holds at  *)
(* most one row, so that rules can be changed after the row is stored and  *)
(* the row read back.                                                      *)

Com == <<"com">>
PrivacyDomains ==
  { Com, YoutubeCom, MYoutubeCom, <<"M", ".", "YouTube", ".", "com">>,
    <<"a", ".", "m", ".", "youtube", ".", "com">>, <<"notyoutube", ".", "com">> }

PrivacyEvents(t) ==
  { Payload(Some(JNum(1)), Rfc3339Format(t), k, d, a, None, None, None, None) :
      k \in {"tab_active", "tab_audio_stop", "app_active", "app_audio"},
      d \in {None} \cup { Some(JStr(x)) : x \in PrivacyDomains },
      a \in {None, Some(JStr(ChromeExe))} }

EventsQueries == { [limit |-> 1], [limit |-> 50] }

InitPrivacy ==
  /\ now = 0
  /\ tracking_state = InitialTrackingState
  /\ events = <<>>
  /\ sqlite_sequence = 0
  /\ privacy_rules = {}
  /\ settings = DefaultSettings
  /\ block_reviews = {}
  /\ last = NoRequest
  /\ InitAux

NextPrivacy ==
  \/ events = <<>> /\ \E p \in PrivacyEvents(now) : PostEvent(p)
  \/ \E v \in {Com, YoutubeCom, MYoutubeCom}, a \in {"drop", "mask"} :
       PostPrivacyRule("domain", v, a)
  \/ PostPrivacyRule("app", ChromeExe, "mask")
  \/ \E r \in privacy_rules : DeletePrivacyRule(r)
  \/ GetEvents([limit |-> 50])
  \/ PostDataWipe

SpecPrivacy == InitPrivacy /\ [][NextPrivacy]_vars

---------------------------------------------------------------------------
(* The reads of a day's log: focus and audio events, a rule on one of the  *)
(* stored domains added or removed at any time.                            *)

ReadEvents(t) ==
  LET ev(k, d, a, act) ==
        Payload(Some(JNum(1)), Rfc3339Format(t), k, d, a, None, None, None, act)
  IN { ev("tab_active", Some(JStr(YoutubeCom)), None, None),
       ev("tab_active", Some(JStr(YoutubeCom)), None, Some(JStr(<<"audio">>))),
       ev("app_active", None, Some(JStr(ChromeExe)), None) }

BlocksQueries ==
  { [date |-> None, tz_offset_minutes |-> None],
    [date |-> Some([valid |-> FALSE, day |-> 0]), tz_offset_minutes |-> None] }

NextRead ==
  \/ \E p \in ReadEvents(now) : PostEvent(p)
  \/ \E a \in {"drop", "mask"} : PostPrivacyRule("domain", YoutubeCom, a)
  \/ \E r \in privacy_rules : DeletePrivacyRule(r)
  \/ \E q \in EventsQueries : GetEvents(q)
  \/ GetNow([limit |-> 200])
  \/ \E q \in BlocksQueries : GetTimelineDay(q)
  \/ \E q \in BlocksQueries : GetBlocksToday(q)
  \/ Tick

SpecRead == InitPrivacy /\ [][NextRead]_vars

---------------------------------------------------------------------------
(* build_blocks and build_timeline_segments on a stored day.  A walk is a  *)
(* sequence of steps, each an event and the gap to the next one; the log   *)
(* is what post_event stored for these events and the clock stands at the  *)
(* end of the last gap.                                                    *)

MaxEvents == 2

CodeExe == <<"code", ".", "exe">>

Step(event, domain, app, title, activity, gap) ==
  [event |-> event, domain |-> domain, app |-> app, title |-> title,
   activity |-> activity, gap |-> gap]

RECURSIVE EndOf(_)
EndOf(walk) == IF walk = <<>> THEN 0 ELSE walk[Len(walk)].gap + EndOf(SubSeq(walk, 1, Len(walk) - 1))

\* the rows post_event stores for the events of a walk, posted in order
\* with no privacy rule and tracking on
RECURSIVE LogOf(_, _)
LogOf(walk, s) ==
  IF walk = <<>> THEN <<>>
  ELSE LET before == SubSeq(walk, 1, Len(walk) - 1)
           e == walk[Len(walk)]
           log == LogOf(before, s)
       IN post_event(Payload(Some(JNum(1)), Rfc3339Format(EndOf(before)), e.event,
                             e.domain, e.app, e.title, None, None, e.activity),
                     log, Len(log), InitialTrackingState, {}, s, 0).events

Walks(steps, n) == UNION { [1..k -> steps] : k \in 0..n }

\* focus events on a browser, another app and a tab; gaps at both sides of
\* the idle cutoff and of the domain freshness
FocusSteps ==
  { Step(k[1], k[2], k[3], None, None, g) :
      k \in { <<"app_active", None, Some(JStr(ChromeExe))>>,
              <<"app_active", None, Some(JStr(CodeExe))>>,
              <<"tab_active", Some(JStr(YoutubeCom)), None>> },
      g \in {0, 1, 300, 301} }

\* MaxKeys - 1 or MaxKeys apps, each focused once: for 1, 2, 3, ... seconds
\* or, the first two, for one second each
MaxKeys == 6
AppNames == <<"a1", "a2", "a3", "a4", "a5", "a6", "a7">>
KeyWalks ==
  { [i \in 1..k |-> Step("app_active", None, Some(JStr(<<AppNames[i], ".", "exe">>)),
                         None, None, IF i = 2 THEN g ELSE i)] :
      k \in (MaxKeys - 1)..MaxKeys, g \in {1, 2} }

\* the shortest block; the default idle cutoff and one above the domain
\* freshness
BlockSettings ==
  { [DefaultSettings EXCEPT !.block_seconds = 60, !.idle_cutoff_seconds = c] :
      c \in {300, 600} }

TodayQuery == [date |-> None, tz_offset_minutes |-> None]

InitBlocks ==
  /\ tracking_state = InitialTrackingState
  /\ privacy_rules = {}
  /\ settings \in BlockSettings
  /\ block_reviews = {}
  /\ last = NoRequest
  /\ \E w \in Walks(FocusSteps, MaxEvents) \cup KeyWalks :
       /\ events = LogOf(w, settings)
       /\ sqlite_sequence = Len(w)
       /\ now = EndOf(w)
       /\ InitAux

NextBlocks ==
  \/ GetTimelineDay(TodayQuery)
  \/ GetBlocksToday(TodayQuery)

SpecBlocks == InitBlocks /\ [][NextBlocks]_vars

---------------------------------------------------------------------------
(* Titled tabs under a browser, stored while store_titles was on; the      *)
(* setting may be off when the blocks are read, and a mask rule on the     *)
(* domain or on the browser may be added at any time.                      *)

MaxTitled == 2

ExampleCom == <<"example", ".", "com">>

TitledSteps ==
  { Step(k[1], k[2], k[3], k[4], None, g) :
      k \in { <<"tab_active", Some(JStr(YoutubeCom)), None,
                Some(JStr(<<"Video", " - YouTube">>))>>,
              <<"tab_active", Some(JStr(YoutubeCom)), None, Some(JStr(<<"Video", " ">>))>>,
              <<"tab_active", Some(JStr(YoutubeCom)), None, Some(JStr(<<"Other">>))>>,
              <<"tab_active", Some(JStr(YoutubeCom)), None, Some(JStr(<<" ">>))>>,
              <<"tab_active", Some(JStr(ExampleCom)), None,
                Some(JStr(<<"Video", " - YouTube">>))>>,
              <<"app_active", None, Some(JStr(ChromeExe)), Some(JStr(<<"Video">>))>> },
      g \in {1, 301} }

TitleSettings ==
  { [DefaultSettings EXCEPT !.block_seconds = 60, !.store_titles = st] : st \in BOOLEAN }

InitTitles ==
  /\ tracking_state = InitialTrackingState
  /\ privacy_rules = {}
  /\ settings \in TitleSettings
  /\ block_reviews = {}
  /\ last = NoRequest
  /\ \E w \in Walks(TitledSteps, MaxTitled) :
       /\ events = LogOf(w, [settings EXCEPT !.store_titles = TRUE])
       /\ sqlite_sequence = Len(w)
       /\ now = EndOf(w)
       /\ InitAux

NextTitles ==
  \/ GetBlocksToday(TodayQuery)
  \/ PostPrivacyRule("domain", YoutubeCom, "mask")
  \/ PostPrivacyRule("app", ChromeExe, "mask")

SpecTitles == InitTitles /\ [][NextTitles]_vars

---------------------------------------------------------------------------
(* Audio in the background of a focused app: an audible tab, an audible    *)
(* app and their stop markers, with gaps inside and beyond the audio idle  *)
(* cutoff.                                                                 *)

MaxAudio == 3

SpotifyExe == <<"spotify", ".", "exe">>

AudioSteps ==
  { Step(k[1], k[2], k[3], None, k[4], g) :
      k \in { <<"app_active", None, Some(JStr(CodeExe)), None>>,
              <<"tab_active", Some(JStr(YoutubeCom)), None, Some(JStr(<<"audio">>))>>,
              <<"tab_audio_stop", Some(JStr(YoutubeCom)), None, None>>,
              <<"app_audio", None, Some(JStr(SpotifyExe)), None>>,
              <<"app_audio_stop", None, Some(JStr(SpotifyExe)), None>> },
      g \in {1, 121} }

InitAudio ==
  /\ tracking_state = InitialTrackingState
  /\ privacy_rules = {}
  /\ settings = [DefaultSettings EXCEPT !.block_seconds = 60]
  /\ block_reviews = {}
  /\ last = NoRequest
  /\ \E w \in Walks(AudioSteps, MaxAudio) :
       /\ events = LogOf(w, settings)
       /\ sqlite_sequence = Len(w)
       /\ now = EndOf(w)
       /\ InitAux

SpecAudio == InitAudio /\ [][NextBlocks]_vars

---------------------------------------------------------------------------
(* Reviews of the blocks of a day: blocks shorter than the block length    *)
(* that are long enough to review, ended by an idle gap or still open, and *)
(* reviews of every form.                                                  *)

MaxDue == 2

DueSteps ==
  { Step("app_active", None, Some(JStr(CodeExe)), None, None, g) :
      g \in {0, 20, 60, 120, 121} }

DueSettings ==
  [DefaultSettings EXCEPT !.block_seconds = 120, !.idle_cutoff_seconds = 90,
                          !.review_min_seconds = 60]

\* the bodies of POST /blocks/review but for the block id
ReviewForms ==
  LET blank == [block_id |-> BlankText, skipped |-> FALSE, skip_reason |-> None,
                doing |-> None, output |-> None, next |-> None, tags |-> <<>>]
  IN { [blank EXCEPT !.skipped = TRUE, !.skip_reason = Some(<<"busy">>)],
       [blank EXCEPT !.doing = Some(<<" ", "x">>)],
       [blank EXCEPT !.output = Some(<<"x">>), !.doing = Some(<<" ">>)],
       [blank EXCEPT !.next = Some(<<"x", " ">>)],
       [blank EXCEPT !.tags = << <<"t">> >>, !.output = Some(<<>>)],
       [blank EXCEPT !.doing = Some(<<" ">>), !.output = Some(<<>>),
                     !.skip_reason = Some(<<"busy">>)] }

\* the ids of the blocks the client has just read from /blocks/today
ReadIds == { last.data.blocks[i].id : i \in 1..Len(last.data.blocks) }

InitDue ==
  /\ tracking_state = InitialTrackingState
  /\ privacy_rules = {}
  /\ settings = DueSettings
  /\ block_reviews = {}
  /\ last = NoRequest
  /\ \E w \in Walks(DueSteps, MaxDue) :
       /\ events = LogOf(w, settings)
       /\ sqlite_sequence = Len(w)
       /\ now = EndOf(w)
       /\ InitAux

NextDue ==
  \/ GetBlocksDue(TodayQuery)
  \/ GetBlocksToday(TodayQuery)
  \/ \E f \in ReviewForms, id \in ReadIds \cup {BlankText} :
       PostBlockReview([f EXCEPT !.block_id = id])

SpecDue == InitDue /\ [][NextDue]_vars

---------------------------------------------------------------------------
(* The Now snapshot over a stored log of focus and audio events.  A        *)
(* timestamp is stored as the client sent it: most are UTC texts, some     *)
(* spell the same instant with another offset.                             *)

MaxSnap == 2

\* a step whose timestamp is written with the UTC offset off (hours)
StepAt(event, domain, app, activity, gap, off) ==
  [event |-> event, domain |-> domain, app |-> app, title |-> None,
   activity |-> activity, gap |-> gap, off |-> off]

\* the rows post_event stores for the events of such a walk
RECURSIVE LogAt(_, _)
LogAt(walk, s) ==
  IF walk = <<>> THEN <<>>
  ELSE LET before == SubSeq(walk, 1, Len(walk) - 1)
           e == walk[Len(walk)]
           log == LogAt(before, s)
       IN post_event(Payload(Some(JNum(1)),
                             [wf |-> TRUE, inst |-> EndOf(before), off |-> e.off],
                             e.event, e.domain, e.app, e.title, None, None, e.activity),
                     log, Len(log), InitialTrackingState, {}, s, 0).events

SnapKinds ==
  { <<"app_active", None, Some(JStr(ChromeExe)), None>>,
    <<"app_active", None, Some(JStr(CodeExe)), None>>,
    <<"tab_active", Some(JStr(YoutubeCom)), None, None>>,
    <<"tab_active", Some(JStr(YoutubeCom)), None, Some(JStr(<<"audio">>))>>,
    <<"tab_audio_stop", Some(JStr(YoutubeCom)), None, None>>,
    <<"app_audio", None, Some(JStr(SpotifyExe)), None>>,
    <<"app_audio_stop", None, Some(JStr(SpotifyExe)), None>> }

\* gaps at both sides of the 120 s time to live; an audio event that is
\* written one hour west of UTC
SnapSteps ==
  { StepAt(k[1], k[2], k[3], k[4], g, 0) : k \in SnapKinds, g \in {0, 120, 121} }
    \cup { StepAt(k[1], k[2], k[3], k[4], 1, 0 - 1) :
             k \in {x \in SnapKinds : x[1] = "app_audio" \/ x[4] # None} }

InitSnap ==
  /\ tracking_state = InitialTrackingState
  /\ privacy_rules = {}
  /\ settings = [DefaultSettings EXCEPT !.idle_cutoff_seconds = 120]
  /\ block_reviews = {}
  /\ last = NoRequest
  /\ \E w \in Walks(SnapSteps, MaxSnap) :
       /\ events = LogAt(w, settings)
       /\ sqlite_sequence = Len(w)
       /\ now = EndOf(w)
       /\ InitAux

NextSnap ==
  \/ GetNow([limit |-> 200])
  \/ PostPrivacyRule("domain", YoutubeCom, "drop")
  \/ PostPrivacyRule("app", SpotifyExe, "drop")
  \/ PostPrivacyRule("app", ChromeExe, "mask")

SpecSnap == InitSnap /\ [][NextSnap]_vars

---------------------------------------------------------------------------
(* The stored data under inserts, deletions of a block or of a day, and    *)
(* wipes; the day windows of post_data_delete_day and get_timeline_day.    *)

MaxIds == 3

\* the text "y-m-d"
DateText(y, m, d) == <<Some(y), Some(m), Some(d)>>

\* dates at the epoch and a leap day; a day its month does not have, a text
\* of two parts and a text with a part that is no number
DeleteDayDates ==
  { DateText(1970, 1, 1), DateText(1970, 1, 2), DateText(1972, 2, 29),
    DateText(1971, 2, 29), <<Some(1970), Some(1)>>, <<Some(1970), None, Some(1)>> }

\* offsets inside, at and beyond the clamp of normalize_tz_offset_minutes
DeleteDayOffsets ==
  {None, Some(60), Some(0 - 300), Some(0 - 841), Some(900)}

\* an RFC3339 text of the instant t written with the offset off (in hours)

\* a tab event stamped with the clock, written in UTC or an hour east of it
DataEvents(t) ==
  { Payload(Some(JNum(1)), TextAt(t, off), "tab_active", Some(JStr(YoutubeCom)),
            None, None, None, None, None) : off \in {0, 1} }

BlockDeleteRequests ==
  { [block_id |-> None, start_ts |-> None, end_ts |-> None],
    [block_id |-> Some(BlankText), start_ts |-> Some(BlankText), end_ts |-> None],
    [block_id |-> None, start_ts |-> Some(MalformedTs), end_ts |-> None],
    [block_id |-> Some(EpochTs), start_ts |-> None, end_ts |-> Some(MalformedTs)],
    [block_id |-> None, start_ts |-> Some(Rfc3339Format(30)), end_ts |-> Some(EpochTs)],
    [block_id |-> Some(EpochTs), start_ts |-> None, end_ts |-> None],
    [block_id |-> None, start_ts |-> Some(Rfc3339Format(30)),
     end_ts |-> Some(Rfc3339Format(60))],
    [block_id |-> None, start_ts |-> Some(TextAt(30, 1)), end_ts |-> Some(TextAt(90, 1))] }

InitData ==
  /\ now = 0
  /\ tracking_state = InitialTrackingState
  /\ events = <<>>
  /\ sqlite_sequence = 0
  /\ privacy_rules = {}
  /\ settings = DefaultSettings
  /\ block_reviews = {}
  /\ last = NoRequest
  /\ InitAux

NextData ==
  \/ /\ sqlite_sequence < MaxIds
     /\ \E p \in DataEvents(now) : PostEvent(p)
  \/ \E d \in DeleteDayDates, tz \in DeleteDayOffsets :
       PostDataDeleteDay([date |-> d, tz_offset_minutes |-> tz])
  \/ \E req \in BlockDeleteRequests : PostBlockDelete(req)
  \/ PostDataWipe
  \/ GetTimelineDay(TodayQuery)
  \/ Tick

SpecData == InitData /\ [][NextData]_vars

---------------------------------------------------------------------------
(* The loop of the windows collector                                       *)
(* (src/collectors/windows_collector/src/main.rs, windows_main).  One      *)
(* action is one iteration: the foreground part, the audio part and the    *)
(* sleep.  posted holds the events the iteration posted to the core;       *)
(* whether a post arrives makes no difference to the loop.  The review     *)
(* notification of the iteration asks the core and shows a toast; it       *)
(* shares no variable with the two parts modelled here.                    *)

MaxCollectorNow == 180

SpotifyApp == [app |-> Str("Spotify.exe"), pid |-> 11]
VlcApp == [app |-> Str("vlc.exe"), pid |-> 12]

\* Args: a poll every 30 s and the default heartbeat of 60 s
CollectorArgs(track_audio) ==
  [poll_ms |-> 30000, heartbeat_seconds |-> 60, idle_cutoff_seconds |-> 300,
   send_title |-> FALSE, track_audio |-> track_audio]

\* the locals of windows_main before the first iteration
CollectorStart(args, t) ==
  [args |-> args, last_key |-> None, last_sent_at |-> t,
   last_audio |-> None, last_audio_sent_at |-> t,
   poll |-> None, posted |-> <<>>, last_audio_post |-> None]

\* what the iteration reads: system_idle_seconds(), foreground_app() and
\* the Result of active_audio_app()
IdleReadings == {0, 300}
ForegroundApps ==
  { [app |-> ChromeExe, pid |-> 21, title |-> Str("Inbox")],
    [app |-> Str("Code.exe"), pid |-> 22, title |-> Str("main.rs")],
    [app |-> Str("pid:0"), pid |-> 0, title |-> <<>>] }
AudioPolls ==
  { [ok |-> FALSE, audio |-> None], [ok |-> TRUE, audio |-> None],
    [ok |-> TRUE, audio |-> Some(SpotifyApp)], [ok |-> TRUE, audio |-> Some(VlcApp)] }

\* the foreground part of the iteration
foreground_step(c, idle_s, fg, t) ==
  IF idle_s >= c.args.idle_cutoff_seconds THEN [c EXCEPT !.last_key = None]
  ELSE IF fg.pid = 0 THEN c
  ELSE LET key == <<fg.app, fg.pid, IF c.args.send_title THEN fg.title ELSE <<>> >>
           due_heartbeat == t - c.last_sent_at >= c.args.heartbeat_seconds
       IN IF c.last_key # Some(key) \/ due_heartbeat
          THEN [c EXCEPT !.posted = Append(@, [event |-> "app_active", app |-> fg.app,
                                               pid |-> fg.pid]),
                         !.last_key = Some(key), !.last_sent_at = t]
          ELSE c

\* mutant: a poll that failed is taken for a poll that found no audio app
audio_step_stop_on_error(c, poll, t) ==
  IF ~c.args.track_audio THEN c
  ELSE IF is_some(poll.audio)
  THEN LET key == unwrap(poll.audio)
       IN IF c.last_audio # Some(key) \/ t - c.last_audio_sent_at >= c.args.heartbeat_seconds
          THEN [c EXCEPT !.posted = Append(@, [event |-> "app_audio", app |-> key.app,
                                               pid |-> key.pid]),
                         !.last_audio = Some(key), !.last_audio_sent_at = t,
                         !.last_audio_post = Some("app_audio"), !.poll = Some(poll)]
          ELSE [c EXCEPT !.poll = Some(poll)]
  ELSE IF is_some(c.last_audio)
  THEN [c EXCEPT !.posted = Append(@, [event |-> "app_audio_stop",
                                       app |-> unwrap(c.last_audio).app,
                                       pid |-> unwrap(c.last_audio).pid]),
                 !.last_audio = None, !.last_audio_sent_at = t,
                 !.last_audio_post = Some("app_audio_stop"), !.poll = Some(poll)]
  ELSE [c EXCEPT !.poll = Some(poll)]

\* the audio part of the iteration; poll is the Result of active_audio_app,
\* last_audio is compared by (pid, app), all an AudioAppInfo holds here
audio_step(c, poll, t) ==
  IF ~c.args.track_audio THEN c
  ELSE IF ~poll.ok THEN [c EXCEPT !.poll = Some(poll)]
  ELSE IF is_some(poll.audio)
  THEN LET key == unwrap(poll.audio)
           due_heartbeat == t - c.last_audio_sent_at >= c.args.heartbeat_seconds
       IN IF c.last_audio # Some(key) \/ due_heartbeat
          THEN [c EXCEPT !.posted = Append(@, [event |-> "app_audio", app |-> key.app,
                                               pid |-> key.pid]),
                         !.last_audio = Some(key), !.last_audio_sent_at = t,
                         !.last_audio_post = Some("app_audio"), !.poll = Some(poll)]
          ELSE [c EXCEPT !.poll = Some(poll)]
  ELSE IF is_some(c.last_audio)
  THEN [c EXCEPT !.posted = Append(@, [event |-> "app_audio_stop",
                                       app |-> unwrap(c.last_audio).app,
                                       pid |-> unwrap(c.last_audio).pid]),
                 !.last_audio = None, !.last_audio_sent_at = t,
                 !.last_audio_post = Some("app_audio_stop"), !.poll = Some(poll)]
  ELSE [c EXCEPT !.poll = Some(poll)]

\* one iteration of the loop and its sleep
CollectorLoop(idle_s, fg, poll) ==
  LET c0 == [collector EXCEPT !.posted = <<>>, !.poll = None]
      c1 == foreground_step(c0, idle_s, fg, now)
  IN /\ now + collector.args.poll_ms \div 1000 <= MaxCollectorNow
     /\ collector' = audio_step(c1, poll, now)
     /\ now' = now + collector.args.poll_ms \div 1000
     /\ UNCHANGED <<tracking_state, events, sqlite_sequence, privacy_rules, settings,
                    block_reviews, last, reports, app_settings, inflight, scheduler,
                    issued>>

InitCollector ==
  /\ now = 0
  /\ tracking_state = InitialTrackingState
  /\ events = <<>>
  /\ sqlite_sequence = 0
  /\ privacy_rules = {}
  /\ settings = DefaultSettings
  /\ block_reviews = {}
  /\ last = NoRequest
  /\ reports = {}
  /\ app_settings = None
  /\ inflight = NoHandlers
  /\ scheduler = None
  /\ issued = {}
  /\ \E track_audio \in BOOLEAN : collector = CollectorStart(CollectorArgs(track_audio), now)

NextCollector ==
  \E idle_s \in IdleReadings, fg \in ForegroundApps, poll \in AudioPolls :
    CollectorLoop(idle_s, fg, poll)

SpecCollector == InitCollector /\ [][NextCollector]_vars

---------------------------------------------------------------------------
(* report_scheduler_loop and the generation of reports.  One iteration of  *)
(* the loop is a chain of steps, cut where the loop waits for the          *)
(* connection lock or for the model's answer, so that the handlers of the  *)
(* core run in between.  The clock of the scenario visits the instants     *)
(* around the two cooldowns; an iteration runs when its sleep is over and  *)
(* the scheduler gets to run, which is 30 s after the last one or later.   *)

SCHEDULER_TICK == 30
DAILY_COOLDOWN == 60 * 60
WEEKLY_COOLDOWN == 6 * 60 * 60

\* Local::now() when the clock reads 0: Wednesday 1970-01-07 18:00:00
SchedLocalStart == 6 * 86400 + 18 * 3600

SchedTimes == {0, 30, 3570, 3600, 21600}

LocalNow(t) == t + SchedLocalStart
\* now.hour() * 60 + now.minute()
minutes_now(t) == (LocalNow(t) % SECONDS_PER_DAY) \div 60
\* now.date_naive(), as the number of the day
date_local(t) == LocalNow(t) \div SECONDS_PER_DAY
\* Weekday::number_from_monday of the day numbered d (day 0 was a Thursday)
number_from_monday(d) == ((d + 3) % 7) + 1

clamp(v, lo, hi) == max(lo, min(v, hi))

report_id_daily(date) == <<"daily", date>>
report_id_weekly(start, end) == <<"weekly", start, end>>

\* a HashMap as a set of <<key, value>> pairs
map_get(m, k) ==
  IF \E p \in m : p[1] = k THEN Some((CHOOSE p \in m : p[1] = k)[2]) ELSE None
map_insert(m, k, v) == {p \in m : p[1] # k} \cup {<<k, v>>}

\* SELECT ... FROM reports WHERE id = ?1
get_report(table, rid) ==
  IF \E r \in table : r.id = rid THEN Some(CHOOSE r \in table : r.id = rid) ELSE None

\* INSERT INTO reports ... ON CONFLICT(id) DO UPDATE
upsert_report(table, record) == {r \in table : r.id # record.id} \cup {record}

report_is_good(r) ==
  /\ is_some(r.output_md) /\ trim(unwrap(r.output_md)) # <<>>
  /\ is_none(r.error) \/ trim(unwrap(r.error)) = <<>>

\* the match on get_report in the loop
needs_report(table, rid) ==
  IF is_some(get_report(table, rid)) THEN ~report_is_good(unwrap(get_report(table, rid)))
  ELSE TRUE

\* what openai_chat_completions_markdown answers: a text or an error
LlmAnswers ==
  { [ok |-> TRUE, text |-> Str("summary")], [ok |-> FALSE, text |-> Str("timeout")] }

\* the record generate_*_report stores for an answer: an error keeps the
\* output of the stored report
report_record(table, job, answer) ==
  LET existing == get_report(table, job.rid)
  IN [id |-> job.rid, kind |-> job.kind, period_start |-> job.period_start,
      period_end |-> job.period_end,
      output_md |-> IF answer.ok THEN Some(answer.text)
                    ELSE IF is_some(existing) THEN unwrap(existing).output_md ELSE None,
      error |-> IF answer.ok THEN None ELSE Some(answer.text)]

\* a call of generate_daily_report or generate_weekly_report, decided at t
DailyJob(date, t) ==
  [rid |-> report_id_daily(date), kind |-> "daily", period_start |-> date,
   period_end |-> date, at |-> t]
WeeklyJob(start, end, t) ==
  [rid |-> report_id_weekly(start, end), kind |-> "weekly", period_start |-> start,
   period_end |-> end, at |-> t]

\* ReportSettings as the loop reads them; configured is
\* report_settings_is_configured
SchedulerConfigs ==
  { [configured |-> TRUE, daily_enabled |-> TRUE, daily_at_minutes |-> 0 - 5,
     weekly_enabled |-> TRUE, weekly_weekday |-> 0, weekly_at_minutes |-> 0],
    [configured |-> TRUE, daily_enabled |-> TRUE, daily_at_minutes |-> 18 * 60 + 1,
     weekly_enabled |-> TRUE, weekly_weekday |-> 4, weekly_at_minutes |-> 0],
    [configured |-> TRUE, daily_enabled |-> FALSE, daily_at_minutes |-> 10,
     weekly_enabled |-> FALSE, weekly_weekday |-> 1, weekly_at_minutes |-> 10],
    [configured |-> FALSE, daily_enabled |-> TRUE, daily_at_minutes |-> 0,
     weekly_enabled |-> TRUE, weekly_weekday |-> 1, weekly_at_minutes |-> 0] }

\* the loop before its first iteration; started is history: for each
\* report id, how often the loop started its generation and the instant
\* (the loop's now_i) of the last start
SchedulerStart(cfg, t) ==
  [cfg |-> cfg, pc |-> "sleep", wake |-> t, last_attempt |-> {}, job |-> None,
   started |-> {}]

\* sleep(tick)
scheduler_sleep(s, t) == [s EXCEPT !.pc = "sleep", !.wake = t + SCHEDULER_TICK, !.job = None]

\* how often the loop started the generation of rid
starts_of(s, rid) ==
  IF is_some(map_get(s.started, rid)) THEN unwrap(map_get(s.started, rid)).n ELSE 0

\* mutant: the daily half without the cooldown
scheduler_daily_unthrottled(s, table, t) ==
  LET cfg == s.cfg
      target == date_local(t) - 1
      rid == report_id_daily(target)
      due == minutes_now(t) >= clamp(cfg.daily_at_minutes, 0, 1439)
  IN IF ~cfg.configured THEN scheduler_sleep(s, t)
     ELSE IF cfg.daily_enabled /\ due /\ needs_report(table, rid)
     THEN [s EXCEPT !.last_attempt = map_insert(@, rid, t), !.pc = "daily_generate",
                    !.job = Some(DailyJob(target, t))]
     ELSE [s EXCEPT !.pc = "weekly"]

\* the daily half of an iteration up to the call of generate_daily_report
scheduler_daily(s, table, t) ==
  LET cfg == s.cfg
      target == date_local(t) - 1
      rid == report_id_daily(target)
      due == minutes_now(t) >= clamp(cfg.daily_at_minutes, 0, 1439)
      last_t == map_get(s.last_attempt, rid)
      throttled == is_some(last_t) /\ t - unwrap(last_t) < DAILY_COOLDOWN
  IN IF ~cfg.configured THEN scheduler_sleep(s, t)
     ELSE IF cfg.daily_enabled /\ due /\ needs_report(table, rid) /\ ~throttled
     THEN [s EXCEPT !.last_attempt = map_insert(@, rid, t), !.pc = "daily_generate",
                    !.job = Some(DailyJob(target, t))]
     ELSE [s EXCEPT !.pc = "weekly"]

\* the weekly half up to the call of generate_weekly_report; single is
\* whether Local.from_local_datetime finds one instant for the due time
scheduler_weekly(s, table, t, single) ==
  LET cfg == s.cfg
      start_of_week == date_local(t) - (number_from_monday(date_local(t)) - 1)
      due_date == start_of_week + (clamp(cfg.weekly_weekday, 1, 7) - 1)
      due_local == due_date * SECONDS_PER_DAY + 60 * clamp(cfg.weekly_at_minutes, 0, 1439)
      start == start_of_week - 7
      end == start + 6
      rid == report_id_weekly(start, end)
      last_t == map_get(s.last_attempt, rid)
      throttled == is_some(last_t) /\ t - unwrap(last_t) < WEEKLY_COOLDOWN
  IN IF ~cfg.weekly_enabled \/ ~single THEN scheduler_sleep(s, t)
     ELSE IF LocalNow(t) >= due_local /\ needs_report(table, rid) /\ ~throttled
     THEN [s EXCEPT !.last_attempt = map_insert(@, rid, t), !.pc = "weekly_generate",
                    !.job = Some(WeeklyJob(start, end, t))]
     ELSE scheduler_sleep(s, t)

\* where the loop goes on after a generate_*_report call
scheduler_resume(s, t) ==
  IF s.pc \in {"daily_generate", "daily_llm"} THEN [s EXCEPT !.pc = "weekly", !.job = None]
  ELSE scheduler_sleep(s, t)

OnlyScheduler ==
  UNCHANGED <<now, tracking_state, events, sqlite_sequence, privacy_rules, settings,
              block_reviews, last, reports, app_settings, inflight, collector, issued>>

SchedulerDaily ==
  /\ scheduler.pc = "sleep" /\ now >= scheduler.wake
  /\ scheduler' = scheduler_daily(scheduler, reports, now)
  /\ OnlyScheduler

SchedulerWeekly(single) ==
  /\ scheduler.pc = "weekly"
  /\ scheduler' = scheduler_weekly(scheduler, reports, now, single)
  /\ OnlyScheduler

\* generate_*_report(force = false) up to the request to the model: a good
\* stored report is returned as it is
SchedulerGenerate ==
  /\ scheduler.pc \in {"daily_generate", "weekly_generate"}
  /\ LET job == unwrap(scheduler.job)
     IN scheduler' =
          IF ~needs_report(reports, job.rid) THEN scheduler_resume(scheduler, now)
          ELSE [scheduler EXCEPT
                  !.pc = IF @ = "daily_generate" THEN "daily_llm" ELSE "weekly_llm",
                  !.started = map_insert(@, job.rid,
                                [at |-> job.at, n |-> starts_of(scheduler, job.rid) + 1])]
  /\ OnlyScheduler

\* the answer of the model and the upsert of the record
SchedulerStore(answer) ==
  /\ scheduler.pc \in {"daily_llm", "weekly_llm"}
  /\ reports' = upsert_report(reports, report_record(reports, unwrap(scheduler.job), answer))
  /\ scheduler' = scheduler_resume(scheduler, now)
  /\ UNCHANGED <<now, tracking_state, events, sqlite_sequence, privacy_rules, settings,
                 block_reviews, last, app_settings, inflight, collector, issued>>

\* post_generate_daily_report and post_generate_weekly_report for the period
\* the scheduler is after, by their effect on the table
PostGenerateReport(kind, force, answer) ==
  LET start_of_week == date_local(now) - (number_from_monday(date_local(now)) - 1)
      job == IF kind = "daily" THEN DailyJob(date_local(now) - 1, now)
             ELSE WeeklyJob(start_of_week - 7, start_of_week - 1, now)
  IN /\ reports' = IF ~force /\ ~needs_report(reports, job.rid) THEN reports
                   ELSE upsert_report(reports, report_record(reports, job, answer))
     /\ last' = Served("post_generate_report", None,
                       [ok |-> TRUE, error |-> "", stored |-> FALSE], None, FALSE)
     /\ UNCHANGED <<now, tracking_state, events, sqlite_sequence, privacy_rules, settings,
                    block_reviews, app_settings, inflight, collector, scheduler, issued>>

SchedulerClock ==
  \E t \in SchedTimes :
    /\ t > now
    /\ now' = t
    /\ UNCHANGED <<tracking_state, events, sqlite_sequence, privacy_rules, settings,
                   block_reviews, last, aux>>

InitScheduler ==
  /\ now = 0
  /\ tracking_state = InitialTrackingState
  /\ events = <<>>
  /\ sqlite_sequence = 0
  /\ privacy_rules = {}
  /\ settings = DefaultSettings
  /\ block_reviews = {}
  /\ last = NoRequest
  /\ reports = {}
  /\ app_settings = None
  /\ inflight = NoHandlers
  /\ collector = None
  /\ issued = {}
  /\ \E cfg \in SchedulerConfigs : scheduler = SchedulerStart(cfg, now)

NextScheduler ==
  \/ SchedulerDaily
  \/ \E single \in BOOLEAN : SchedulerWeekly(single)
  \/ SchedulerGenerate
  \/ \E answer \in LlmAnswers : SchedulerStore(answer)
  \/ \E kind \in {"daily", "weekly"}, answer \in LlmAnswers :
       PostGenerateReport(kind, TRUE, answer)
  \/ SchedulerClock

SpecScheduler == InitScheduler /\ [][NextScheduler]_vars

---------------------------------------------------------------------------
(* post_settings and post_event as the runtime interleaves them.  A        *)
(* handler in flight is between two lock acquisitions: post_settings       *)
(* copies AppState.settings, later writes the row under the connection     *)
(* lock, later writes AppState.settings; post_event copies                 *)
(* AppState.settings, later does all its work under the connection lock.   *)

MaxHandlers == 3

REVIEW_NOTIFY_REPEAT_MINUTES_MIN == 1
REVIEW_NOTIFY_REPEAT_MINUTES_MAX == 24 * 60

\* a SettingsUpdate that sets nothing
NoUpdate ==
  [block_seconds |-> None, idle_cutoff_seconds |-> None, store_titles |-> None,
   store_exe_path |-> None, review_min_seconds |-> None,
   review_notify_repeat_minutes |-> None, review_notify_when_paused |-> None,
   review_notify_when_idle |-> None]

\* the checks of post_settings before it reads the settings
settings_update_error(req) ==
  IF is_some(req.block_seconds) /\ unwrap(req.block_seconds) < 60
  THEN "invalid_block_seconds"
  ELSE IF is_some(req.idle_cutoff_seconds) /\ unwrap(req.idle_cutoff_seconds) < 10
  THEN "invalid_idle_cutoff_seconds"
  ELSE IF /\ is_some(req.review_min_seconds)
          /\ unwrap(req.review_min_seconds)
               \notin REVIEW_MIN_SECONDS_MIN..REVIEW_MIN_SECONDS_MAX
  THEN "invalid_review_min_seconds"
  ELSE IF /\ is_some(req.review_notify_repeat_minutes)
          /\ unwrap(req.review_notify_repeat_minutes)
               \notin REVIEW_NOTIFY_REPEAT_MINUTES_MIN..REVIEW_NOTIFY_REPEAT_MINUTES_MAX
  THEN "invalid_review_notify_repeat_minutes"
  ELSE ""

\* the fields of the request written over the copy of the settings
apply_settings_update(s, req) ==
  LET set(field, v) == IF is_some(req[field]) THEN v ELSE s[field]
  IN [block_seconds |-> set("block_seconds", unwrap(req.block_seconds)),
      idle_cutoff_seconds |-> set("idle_cutoff_seconds", unwrap(req.idle_cutoff_seconds)),
      store_titles |-> set("store_titles", unwrap(req.store_titles)),
      store_exe_path |-> set("store_exe_path", unwrap(req.store_exe_path)),
      review_min_seconds |->
        set("review_min_seconds",
            clamp(unwrap(req.review_min_seconds),
                  REVIEW_MIN_SECONDS_MIN, REVIEW_MIN_SECONDS_MAX)),
      review_notify_repeat_minutes |->
        set("review_notify_repeat_minutes",
            clamp(unwrap(req.review_notify_repeat_minutes),
                  REVIEW_NOTIFY_REPEAT_MINUTES_MIN, REVIEW_NOTIFY_REPEAT_MINUTES_MAX)),
      review_notify_when_paused |->
        set("review_notify_when_paused", unwrap(req.review_notify_when_paused)),
      review_notify_when_idle |->
        set("review_notify_when_idle", unwrap(req.review_notify_when_idle))]

\* upsert_app_settings: the one row of app_settings
upsert_app_settings(s, updated_at) == Some([settings |-> s, updated_at |-> updated_at])

\* a handler enters: it gets the next number
Entered(kind, pc, req, payload, copy) ==
  [inflight EXCEPT
     !.handlers = @ \cup {[id |-> inflight.entered + 1, kind |-> kind, pc |-> pc,
                           req |-> req, payload |-> payload, settings |-> copy]},
     !.entered = @ + 1]

\* a handler moves on to its next lock
Moved(h, pc) ==
  [inflight EXCEPT !.handlers = (@ \ {h}) \cup {[h EXCEPT !.pc = pc]}]

\* a handler returns; returned is history: the SettingsUpdates answered with
\* ok, with the number of their handler
Returned(h) ==
  [inflight EXCEPT
     !.handlers = @ \ {h},
     !.returned = IF h.kind = "post_settings" THEN @ \cup {[id |-> h.id, req |-> unwrap(h.req)]}
                  ELSE @]

\* post_settings up to its copy of the settings: a request that fails a
\* check is answered at once
PostSettingsCopy(req) ==
  LET error == settings_update_error(req)
  IN /\ inflight.entered < MaxHandlers
     /\ IF error # ""
        THEN /\ last' = Served("post_settings", None,
                               [ok |-> FALSE, error |-> error, stored |-> FALSE], None, FALSE)
             /\ inflight' = [inflight EXCEPT !.entered = @ + 1]
        ELSE /\ inflight' = Entered("post_settings", "upsert", Some(req), None,
                                    apply_settings_update(settings, req))
             /\ last' = last
     /\ UNCHANGED <<now, tracking_state, events, sqlite_sequence, privacy_rules, settings,
                    block_reviews, reports, app_settings, collector, scheduler, issued>>

\* post_settings under the connection lock
PostSettingsUpsert(h) ==
  /\ h.kind = "post_settings" /\ h.pc = "upsert"
  /\ app_settings' = upsert_app_settings(h.settings, Rfc3339Format(now))
  /\ inflight' = Moved(h, "store")
  /\ UNCHANGED <<now, tracking_state, events, sqlite_sequence, privacy_rules, settings,
                 block_reviews, last, reports, collector, scheduler, issued>>

\* post_settings under the settings lock, and its answer
PostSettingsStore(h) ==
  /\ h.kind = "post_settings" /\ h.pc = "store"
  /\ settings' = h.settings
  /\ inflight' = Returned(h)
  /\ last' = Served("post_settings", None,
                    [ok |-> TRUE, error |-> "", stored |-> FALSE], None, FALSE)
  /\ UNCHANGED <<now, tracking_state, events, sqlite_sequence, privacy_rules,
                 block_reviews, reports, app_settings, collector, scheduler, issued>>

\* post_event up to its copy of the settings (the event has passed the
\* checks made before it)
PostEventCopy(payload) ==
  /\ inflight.entered < MaxHandlers
  /\ post_event(payload, events, sqlite_sequence, tracking_state, privacy_rules,
                settings, now).ok
  /\ inflight' = Entered("post_event", "insert", None, Some(payload), settings)
  /\ UNCHANGED <<now, tracking_state, events, sqlite_sequence, privacy_rules, settings,
                 block_reviews, last, reports, app_settings, collector, scheduler, issued>>

\* post_event under the connection lock, with the settings it copied
PostEventInsert(h) ==
  LET payload == unwrap(h.payload)
      out == post_event(payload, events, sqlite_sequence, tracking_state,
                        privacy_rules, h.settings, now)
  IN /\ h.kind = "post_event" /\ h.pc = "insert"
     /\ events' = out.events
     /\ sqlite_sequence' = out.sqlite_sequence
     /\ tracking_state' = out.tracking_state
     /\ issued' = issued \cup IdsOf(out.events)
     /\ inflight' = Returned(h)
     /\ last' = Served("post_event", Some(payload), out, None,
                       out.tracking_state # tracking_state)
     /\ UNCHANGED <<now, privacy_rules, settings, block_reviews, reports, app_settings,
                    collector, scheduler>>

\* titles are stored when the scenario starts, in memory and in the row
TitledSettings == [DefaultSettings EXCEPT !.store_titles = TRUE]

SettingsUpdates ==
  { [NoUpdate EXCEPT !.store_titles = Some(FALSE)],
    [NoUpdate EXCEPT !.block_seconds = Some(120)],
    [NoUpdate EXCEPT !.block_seconds = Some(30)],
    [NoUpdate EXCEPT !.review_min_seconds = Some(60), !.idle_cutoff_seconds = Some(5)],
    [NoUpdate EXCEPT !.review_min_seconds = Some(30)],
    [NoUpdate EXCEPT !.review_notify_repeat_minutes = Some(0)] }

TitledEvent(t) ==
  Payload(Some(JNum(1)), Rfc3339Format(t), "tab_active", Some(JStr(YoutubeCom)),
          None, Some(JStr(Str("Video"))), None, None, None)

InitSettings ==
  /\ now = 0
  /\ tracking_state = InitialTrackingState
  /\ events = <<>>
  /\ sqlite_sequence = 0
  /\ privacy_rules = {}
  /\ settings = TitledSettings
  /\ block_reviews = {}
  /\ last = NoRequest
  /\ reports = {}
  /\ app_settings = upsert_app_settings(TitledSettings, EpochTs)
  /\ inflight = NoHandlers
  /\ collector = None
  /\ scheduler = None
  /\ issued = {}

NextSettings ==
  \/ \E req \in SettingsUpdates : PostSettingsCopy(req)
  \/ \E h \in inflight.handlers : PostSettingsUpsert(h)
  \/ \E h \in inflight.handlers : PostSettingsStore(h)
  \/ PostEventCopy(TitledEvent(now))
  \/ \E h \in inflight.handlers : PostEventInsert(h)

SpecSettings == InitSettings /\ [][NextSettings]_vars

---------------------------------------------------------------------------
(* Vocabulary of the claims *)

\* a step taken by the handler op (the clock stands still while it runs)
HandlerStep(op) == now' = now /\ last'.op = op

Posted == unwrap(last.payload)

HasVersion(p) == is_some(p.v) /\ unwrap(p.v).j = "num"
VersionOf(p) == unwrap(p.v).n

NonBlankString(f) == is_some(filter_non_blank(as_opt_string(f)))

\* the wire contract: v >= 1, an RFC3339 ts, and the field the kind requires
ValidEvent(p) ==
  /\ HasVersion(p) /\ VersionOf(p) >= 1
  /\ p.ts.wf
  /\ p.event \in {"tab_active", "tab_audio_stop"} => NonBlankString(p.domain)
  /\ p.event \in {"app_active", "app_audio", "app_audio_stop"} => NonBlankString(p.app)

\* paused indefinitely, or with a deadline strictly after t
PausedAt(row, t) ==
  /\ row.paused
  /\ \/ is_none(row.paused_until_ts)
     \/ /\ unwrap(row.paused_until_ts).wf
        /\ unwrap(row.paused_until_ts).inst > t

\* paused with a deadline that has passed at t, or with an unreadable one
DeadlinePassed(row, t) ==
  /\ row.paused
  /\ is_some(row.paused_until_ts)
  /\ \/ ~unwrap(row.paused_until_ts).wf
     \/ unwrap(row.paused_until_ts).inst <= t

LastRow(log) == log[Len(log)]

\* two rows that differ at most in their id
SameEvent(r1, r2) == [r1 EXCEPT !.id = 0] = [r2 EXCEPT !.id = 0]

---------------------------------------------------------------------------
\* C1: an event with v < 1 or an unparseable ts is answered with
\* invalid_version / invalid_ts and the event log is left as it was, whatever
\* the tracking state and the privacy rules.
C1_InvalidEventRejected ==
  [][ LET p == unwrap(last'.payload)
      IN (HandlerStep("post_event") /\ HasVersion(p)
            /\ (VersionOf(p) < 1 \/ ~p.ts.wf))
         => (/\ ~last'.ok
             /\ last'.error = (IF VersionOf(p) < 1 THEN "invalid_version"
                               ELSE "invalid_ts")
             /\ events' = events) ]_vars

C1_Witness ==
  /\ last.op = "post_event" /\ last.error = "invalid_ts"
  /\ events # <<>> /\ privacy_rules # {} /\ tracking_state.paused

\* C2: while tracking is paused (indefinitely, or with a deadline strictly
\* after now) a valid event is acknowledged with ok and adds no row.
C2_PausedIngestAcked ==
  [][ (HandlerStep("post_event") /\ ValidEvent(unwrap(last'.payload))
         /\ PausedAt(tracking_state, now))
      => (last'.ok /\ events' = events /\ tracking_state' = tracking_state) ]_vars

C2_Witness ==
  /\ last.op = "post_event" /\ ValidEvent(Posted) /\ last.ok /\ ~last.stored
  /\ PausedAt(tracking_state, now) /\ is_some(tracking_state.paused_until_ts)
  /\ privacy_rules = {}

\* C3: with a deadline that has passed (or cannot be parsed) and no resume
\* call, the first status read or valid ingest rewrites the stored state to
\* paused = false with no deadline; the status read reports it, and a valid
\* event posted when tracking is not paused is stored unless a Drop rule
\* applies to it.
C3_AutoResume ==
  [][ /\ (DeadlinePassed(tracking_state, now)
            /\ (HandlerStep("get_tracking_status")
                  \/ (HandlerStep("post_event") /\ ValidEvent(unwrap(last'.payload)))))
         => (/\ tracking_state' = [paused |-> FALSE, paused_until_ts |-> None,
                                   updated_at |-> Rfc3339Format(now)]
             /\ last'.op = "get_tracking_status"
                  => last'.status = Some(tracking_state'))
      /\ (HandlerStep("post_event") /\ ValidEvent(unwrap(last'.payload))
            /\ ~PausedAt(tracking_state, now)
            /\ privacy_action_for_event(privacy_rules,
                 unwrap(deserialize_event(unwrap(last'.payload)))) # Some("drop"))
         => (last'.ok /\ last'.stored /\ Len(events') = Len(events) + 1) ]_vars

C3_Witness ==
  /\ last.op = "post_event" /\ last.auto_resumed /\ last.stored
  /\ ~tracking_state.paused /\ now > 0

\* C7 as claimed: posting the event that was just stored once more leaves
\* the log as it was.
C7_Idempotent ==
  [][ (HandlerStep("post_event") /\ last.op = "post_event" /\ last.stored
         /\ last'.payload = last.payload)
      => events' = events ]_vars

\* C7: insertion appends: every stored event becomes one new row at the end
\* of the log, with an id no row of the log has, also when a row with the
\* same ts, source, event, entity and payload is already there.
C7_AppendOnly ==
  [][ (HandlerStep("post_event") /\ last'.stored)
      => (/\ Len(events') = Len(events) + 1
          /\ SubSeq(events', 1, Len(events)) = events
          /\ \A i \in 1..Len(events) : events[i].id < LastRow(events').id
          /\ (last.op = "post_event" /\ last.stored /\ last'.payload = last.payload)
               => SameEvent(LastRow(events), LastRow(events'))) ]_vars

C7_Witness ==
  \E i, j \in 1..Len(events) :
    i < j /\ SameEvent(events[i], events[j]) /\ events[i].id # events[j].id

---------------------------------------------------------------------------
\* the IngestEvent post_event works on
Ingested(p) == unwrap(deserialize_event(p))

\* the ingest path decides to drop / to mask the event
DropApplies(p) == privacy_action_for_event(privacy_rules, Ingested(p)) = Some("drop")
MaskApplies(p) == privacy_action_for_event(privacy_rules, Ingested(p)) = Some("mask")

\* C4: an event the ingest path decides to drop adds no row, and when it is
\* a valid event it is acknowledged with ok, never with an error.
C4_DropAcked ==
  [][ LET p == unwrap(last'.payload)
      IN (HandlerStep("post_event") /\ HasVersion(p) /\ DropApplies(p))
         => (/\ events' = events
             /\ ~last'.stored
             /\ ValidEvent(p) => (last'.ok /\ last'.error = "")) ]_vars

C4_Witness ==
  /\ last.op = "post_event" /\ ValidEvent(Posted) /\ DropApplies(Posted)
  /\ last.ok /\ ~last.stored /\ events = <<>> /\ ~tracking_state.paused

\* the payload fields a masked row may still show
MaskedPayload(obj) ==
  /\ obj.masked = Some(JBool(TRUE))
  /\ is_some(obj.domain) => obj.domain = Some(JStr(HIDDEN))
  /\ is_some(obj.app) => obj.app = Some(JStr(HIDDEN))
  /\ is_none(obj.title) /\ is_none(obj.exePath) /\ is_none(obj.pid)

\* C5 as claimed: a row stored under a Mask rule has entity "__hidden__", no
\* title, and a payload with domain/app hidden, masked = true and none of
\* title, exePath, pid, for every event kind and every privacy setting.
C5_MaskSanitizes ==
  [][ LET p == unwrap(last'.payload)
      IN (HandlerStep("post_event") /\ last'.stored /\ MaskApplies(p))
         => (/\ LastRow(events').entity = Some(HIDDEN)
             /\ LastRow(events').title = None
             /\ MaskedPayload(LastRow(events').payload_json)) ]_vars

\* C6 as claimed: tab kinds without a non-empty domain are rejected with
\* missing_domain, app kinds without a non-empty app with missing_app, and a
\* stored row of those kinds carries the domain, resp. the app, it was sent.
NonEmptyString(f) == is_some(as_opt_string(f)) /\ unwrap(as_opt_string(f)) # <<>>

C6_RequiredFieldEnforced ==
  [][ LET p == unwrap(last'.payload)
      IN (HandlerStep("post_event") /\ HasVersion(p) /\ VersionOf(p) >= 1 /\ p.ts.wf)
         => (/\ (p.event \in {"tab_active", "tab_audio_stop"} /\ ~NonEmptyString(p.domain))
                  => (~last'.ok /\ last'.error = "missing_domain" /\ events' = events)
             /\ (p.event \in {"app_active", "app_audio", "app_audio_stop"}
                   /\ ~NonEmptyString(p.app))
                  => (~last'.ok /\ last'.error = "missing_app" /\ events' = events)
             /\ (last'.stored /\ ~MaskApplies(p))
                  => (/\ p.event \in {"tab_active", "tab_audio_stop"}
                           => LastRow(events').entity = as_opt_string(p.domain)
                      /\ p.event \in {"app_active", "app_audio", "app_audio_stop"}
                           => LastRow(events').entity = as_opt_string(p.app))) ]_vars

---------------------------------------------------------------------------
\* d is R with one or more labels in front of it
IsSubdomainOf(d, R) ==
  /\ Len(d) > Len(R) + 1
  /\ SubSeq(d, Len(d) - Len(R) + 1, Len(d)) = R
  /\ d[Len(d) - Len(R)] = "."

\* the domain rules C8 says apply to the lower-cased domain d: those on d
\* itself and those on a parent of d that is more than a single label
ApplicableRules(d) ==
  { r \in privacy_rules :
      /\ r.kind = "domain"
      /\ \/ r.value = d
         \/ IsSubdomainOf(d, r.value) /\ contains_dot(r.value) }

MostSpecific(S) == CHOOSE r \in S : \A o \in S : Len(o.value) <= Len(r.value)

\* the app rule ingest falls back to when no domain rule applies
AppRuleFor(p) ==
  IF p.event # "tab_active" /\ NonBlankString(p.app)
  THEN { r \in privacy_rules : r.kind = "app" /\ r.value = unwrap(as_opt_string(p.app)) }
  ELSE {}

\* what ingest does with the event p under the action of rule set S
Outcome(S, p, entity) ==
  IF S = {} THEN last'.stored /\ LastRow(events').entity = entity
  ELSE IF MostSpecific(S).action = "drop" THEN ~last'.stored /\ events' = events
  ELSE last'.stored /\ LastRow(events').entity = Some(HIDDEN)

ListedAs(listing, r) == { i \in 1..Len(listing) : listing[i].id = r.id }

\* C9 as claimed: a tail listing treats every stored tab event as the domain
\* check of ingest would under the rules of the moment: not listed when ingest
\* would drop it, listed as "__hidden__" without title when ingest would mask
\* it, listed as stored otherwise.
C9_ReadAppliesSuffixRules ==
  [][ HandlerStep("get_events")
      => \A k \in 1..Len(events) :
           LET r == events[k]
               listing == last'.data.events
               action == check_domain(privacy_rules,
                                      unwrap(as_opt_string(r.payload_json.domain)))
           IN (/\ is_none(r.payload_json.masked)
               /\ r.event \in {"tab_active", "tab_audio_stop"}
               /\ NonBlankString(r.payload_json.domain))
              => IF action = Some("drop") THEN ListedAs(listing, r) = {}
                 ELSE /\ ListedAs(listing, r) # {}
                      /\ \A i \in ListedAs(listing, r) :
                           IF action = Some("mask")
                           THEN listing[i].entity = Some(HIDDEN) /\ listing[i].title = None
                           ELSE listing[i].entity = r.entity ]_vars

---------------------------------------------------------------------------
\* the read path decides Drop for the stored row r
Dropped(r) ==
  is_some(r.entity) /\ decision_for(privacy_rules, r.event, unwrap(r.entity)) = "Drop"

\* a Drop rule of that kind is on the entity
DroppedEntity(kind, entity) ==
  check(privacy_rules, kind, IF kind = "domain" THEN to_lowercase(trim(entity))
                             ELSE trim(entity)) = Some("drop")

RECURSIVE WithoutDropped(_)
WithoutDropped(log) ==
  IF log = <<>> THEN <<>>
  ELSE (IF Dropped(Head(log)) THEN <<>> ELSE <<Head(log)>>) \o WithoutDropped(Tail(log))

\* the log with every dropped row stored as a masked row would be
DroppedAsHidden(log) ==
  [i \in 1..Len(log) |->
     IF Dropped(log[i]) THEN [log[i] EXCEPT !.entity = Some(HIDDEN), !.title = None]
     ELSE log[i]]

\* the Option<EventRecord> fields of a Now snapshot
NowRecords(snap) ==
  { snap.latest_event, snap.app_active, snap.tab_focus, snap.tab_audio,
    snap.tab_audio_stop, snap.app_audio, snap.app_audio_stop, snap.now_focus_app,
    snap.now_using_tab, snap.now_background_audio }

\* no tail listing and no Now field shows a dropped row
DroppedNotListed ==
  /\ HandlerStep("get_events")
       => \A i \in 1..Len(last'.data.events), k \in 1..Len(events) :
            Dropped(events[k]) => last'.data.events[i].id # events[k].id
  /\ HandlerStep("get_now")
       => \A k \in 1..Len(events) :
            Dropped(events[k])
              => /\ unwrap(last'.data.now).latest_event_id # Some(events[k].id)
                 /\ \A rec \in NowRecords(unwrap(last'.data.now)) :
                      is_some(rec) => unwrap(rec).id # events[k].id

TodayEvents(log) == list_events_between(log, 0, SECONDS_PER_DAY, privacy_rules)

---------------------------------------------------------------------------
(* C11 *)

\* the timestamps of the range query over today under a rule table, and
\* the (start, end, total_seconds) of the blocks built from it
RangeTimes(rules) ==
  LET evs == list_events_between(events, 0, SECONDS_PER_DAY, rules)
  IN [i \in 1..Len(evs) |-> evs[i].ts]

BlockTimes(rules) ==
  LET bs == build_blocks(list_events_between(events, 0, SECONDS_PER_DAY, rules),
                         settings, now)
  IN [i \in 1..Len(bs) |-> <<bs[i].start, bs[i].end, bs[i].total_seconds>>]

\* the stored rows a rule names
RowsOf(r) ==
  { i \in 1..Len(events) :
      /\ events[i].entity = Some(r.value)
      /\ privacy_kind_for_event(events[i].event) = r.kind }

\* C11: adding a mask rule for an entity of the log changes neither the
\* timestamps the range query returns nor the (start_ts, end_ts,
\* total_seconds) of any block built from them.
C11_MaskKeepsTiming ==
  [][/\ HandlerStep("post_privacy_rule")
     /\ \E r \in privacy_rules' \ privacy_rules : r.action = "mask" /\ RowsOf(r) # {}
     => /\ RangeTimes(privacy_rules') = RangeTimes(privacy_rules)
        /\ BlockTimes(privacy_rules') = BlockTimes(privacy_rules)]_vars

\* a mask rule was added for an entity of the log: the range query hides
\* the entity of its rows, and the day has two blocks or more
C11_Witness ==
  /\ last.op = "post_privacy_rule"
  /\ \E r \in privacy_rules :
       /\ r.action = "mask"
       /\ RowsOf(r) # {}
       /\ \A i \in RowsOf(r) : TodayEvents(events)[i].entity = HIDDEN
  /\ Len(BlockTimes(privacy_rules)) >= 2

---------------------------------------------------------------------------
(* C12 *)

RECURSIVE SumSeconds(_)
SumSeconds(items) == IF items = <<>> THEN 0 ELSE Head(items).seconds + SumSeconds(Tail(items))

\* the block accumulators behind the blocks of today's answer
TodayBlocks == build_blocks(TodayEvents(events), settings, now)

BlockLen == max(60, settings.block_seconds)

\* C12: every block answered by get_blocks_today has
\* sum(top_items.seconds) <= total_seconds <= block_len, and the sum equals
\* total_seconds when the block's bucket has at most 5 distinct keys.
C12_BlockTotals ==
  [][HandlerStep("get_blocks_today") /\ last'.ok =>
       /\ Len(last'.data.blocks) = Len(TodayBlocks)
       /\ \A i \in 1..Len(last'.data.blocks) :
            LET b == last'.data.blocks[i]
            IN /\ SumSeconds(b.top_items) <= b.total_seconds
               /\ b.total_seconds <= BlockLen
               /\ Cardinality(DOMAIN TodayBlocks[i].bucket) <= 5
                    => SumSeconds(b.top_items) = b.total_seconds]_vars

\* a full block was answered together with a block of six keys, whose top
\* five sum to less than its total
C12_Witness ==
  /\ last.op = "get_blocks_today"
  /\ \E i \in 1..Len(last.data.blocks) :
       /\ Cardinality(DOMAIN TodayBlocks[i].bucket) > 5
       /\ SumSeconds(last.data.blocks[i].top_items) < last.data.blocks[i].total_seconds

\* a block of exactly block_len seconds with one item
C12_WitnessFull ==
  /\ last.op = "get_blocks_today"
  /\ \E i \in 1..Len(last.data.blocks) :
       /\ last.data.blocks[i].total_seconds = BlockLen
       /\ SumSeconds(last.data.blocks[i].top_items) = BlockLen

---------------------------------------------------------------------------
(* C13 *)

\* the stream build_blocks walks for the primary blocks, and its idle cutoff
TodayFocus == select_stream(TodayEvents(events), FALSE)
IdleCutoff == max(settings.idle_cutoff_seconds, 10)

\* the focus events of today, the raw gap after each and the idle cutoff
FocusWalk ==
  LET fe == TodayFocus
  IN [fe |-> fe, gap |-> [i \in 1..Len(fe) |-> next_ts_of(fe, i, now) - fe[i].ts],
      cutoff |-> IdleCutoff]

Ascending(evs) == \A i \in 1..(Len(evs) - 1) : evs[i].ts <= evs[i + 1].ts

\* a raw gap above the idle cutoff whose idle part lies between instants e and s
IdleGapBetween(W, e, s) ==
  \E i \in 1..Len(W.fe) :
    /\ W.gap[i] > W.cutoff
    /\ e <= W.fe[i].ts + W.cutoff
    /\ W.fe[i].ts + W.gap[i] <= s

\* C13: for events in ascending ts order, the blocks B_1..B_n answered by
\* get_blocks_today satisfy B_k.start_ts <= B_k.end_ts <= B_{k+1}.start_ts,
\* and B_{k+1}.start_ts = B_k.end_ts unless a raw gap greater than the idle
\* cutoff lies between them.
C13_BlocksOrdered ==
  [][HandlerStep("get_blocks_today") /\ last'.ok /\ Ascending(TodayEvents(events)) =>
       LET B == last'.data.blocks
           W == FocusWalk
       IN /\ \A k \in 1..Len(B) : B[k].start_ts.inst <= B[k].end_ts.inst
          /\ \A k \in 1..(Len(B) - 1) :
               /\ B[k].end_ts.inst <= B[k + 1].start_ts.inst
               /\ \/ B[k + 1].start_ts.inst = B[k].end_ts.inst
                  \/ IdleGapBetween(W, B[k].end_ts.inst, B[k + 1].start_ts.inst)]_vars

\* three blocks answered: the second starts where the first ends, the third
\* after an idle gap
C13_Witness ==
  /\ last.op = "get_blocks_today"
  /\ Len(last.data.blocks) >= 3
  /\ \E k \in 1..(Len(last.data.blocks) - 1) :
       last.data.blocks[k + 1].start_ts.inst = last.data.blocks[k].end_ts.inst
  /\ \E k \in 1..(Len(last.data.blocks) - 1) :
       /\ last.data.blocks[k + 1].start_ts.inst > last.data.blocks[k].end_ts.inst
       /\ IdleGapBetween(FocusWalk, last.data.blocks[k].end_ts.inst,
                         last.data.blocks[k + 1].start_ts.inst)

---------------------------------------------------------------------------
(* C14 *)

\* the seconds of [a, b] covered by the intervals [start_ts, end_ts] of xs
RECURSIVE Covered(_, _, _)
Covered(xs, a, b) ==
  IF xs = <<>> THEN 0
  ELSE max(0, min(b, Head(xs).end_ts.inst) - max(a, Head(xs).start_ts.inst))
       + Covered(Tail(xs), a, b)

FocusSegments(timeline) == SelectSeq(timeline, LAMBDA x : x.activity = Some("focus"))

\* what the focus walk answered last: the focus segments or the blocks
FocusAnswer(r) ==
  IF r.op = "get_timeline_day" THEN FocusSegments(r.data.timeline) ELSE r.data.blocks

FocusRead == (HandlerStep("get_timeline_day") \/ HandlerStep("get_blocks_today")) /\ last'.ok

\* C14 as stated: in the focus walk of the timeline and of the blocks, a raw
\* gap equal to the idle cutoff is attributed in full, and of a raw gap
\* strictly greater nothing is attributed.
C14_LongGapAttributesNone ==
  [][FocusRead =>
       LET W == FocusWalk
           A == FocusAnswer(last')
       IN \A i \in 1..Len(W.fe) :
            LET got == Covered(A, W.fe[i].ts, W.fe[i].ts + W.gap[i])
            IN /\ W.gap[i] = W.cutoff => got = W.gap[i]
               /\ W.gap[i] > W.cutoff => got = 0]_vars

\* C14 amended: a raw gap up to the idle cutoff is attributed in full, and of
\* a raw gap strictly greater exactly the first idle_cutoff seconds are.
C14_GapClamped ==
  [][FocusRead =>
       LET W == FocusWalk
           A == FocusAnswer(last')
       IN \A i \in 1..Len(W.fe) :
            LET a == W.fe[i].ts
            IN /\ W.gap[i] >= 0 => Covered(A, a, a + W.gap[i]) = min(W.gap[i], W.cutoff)
               /\ W.gap[i] > W.cutoff =>
                    /\ Covered(A, a, a + W.cutoff) = W.cutoff
                    /\ Covered(A, a + W.cutoff, a + W.gap[i]) = 0]_vars

\* a focus read answered a day with a gap of idle_cutoff seconds and one of
\* idle_cutoff + 1 seconds: idle_cutoff seconds of each are attributed
C14_Witness ==
  /\ last.op \in {"get_timeline_day", "get_blocks_today"}
  /\ LET W == FocusWalk
         A == FocusAnswer(last)
     IN \E i, j \in 1..Len(W.fe) :
          /\ W.gap[i] = W.cutoff
          /\ W.gap[j] = W.cutoff + 1
          /\ Covered(A, W.fe[i].ts, W.fe[i].ts + W.cutoff) = W.cutoff
          /\ Covered(A, W.fe[j].ts, W.fe[j].ts + W.cutoff + 1) = W.cutoff

---------------------------------------------------------------------------
(* C15 *)

\* the walk's registers at focus event i: the events before it that still
\* count are those of a positive gap with no gap above the idle cutoff up to i
Counts(W, j, i) == W.gap[j] > 0 /\ \A k \in j..(i - 1) : W.gap[k] <= W.cutoff
AppEventsAt(W, i) == { j \in 1..i : Counts(W, j, i) /\ W.fe[j].event # "tab_active" }
TabEventsAt(W, i) == { j \in 1..i : Counts(W, j, i) /\ W.fe[j].event = "tab_active" }
Latest(S) == CHOOSE j \in S : \A k \in S : k <= j
CurrentApp(W, i) == W.fe[Latest(AppEventsAt(W, i))].entity
CurrentDomain(W, i) == W.fe[Latest(TabEventsAt(W, i))]

\* the entity the claim credits a segment of event i starting at t to:
\* <<kind, entity>>, or <<>> for nothing
Credited(W, i, t) ==
  IF AppEventsAt(W, i) # {}
  THEN IF /\ is_browser_app(CurrentApp(W, i))
          /\ TabEventsAt(W, i) # {}
          /\ t - CurrentDomain(W, i).ts <= 300
       THEN <<"domain", CurrentDomain(W, i).entity>>
       ELSE <<"app", CurrentApp(W, i)>>
  ELSE IF TabEventsAt(W, i) # {} THEN <<"domain", CurrentDomain(W, i).entity>>
  ELSE <<>>

\* the seconds of block b the claim credits to key: of each event's clamped
\* gap the part inside b, resolved at the start of that part
RECURSIVE CreditIn(_, _, _, _)
CreditIn(W, b, key, i) ==
  IF i > Len(W.fe) THEN 0
  ELSE LET a == W.fe[i].ts
           from == max(a, b.start_ts.inst)
           to == min(a + min(W.gap[i], W.cutoff), b.end_ts.inst)
       IN (IF to > from /\ Credited(W, i, from) = key THEN to - from ELSE 0)
          + CreditIn(W, b, key, i + 1)

KeysIn(W, b) ==
  { Credited(W, i, max(W.fe[i].ts, b.start_ts.inst)) : i \in 1..Len(W.fe) } \ {<<>>}

KeyOf(item) == <<item.kind, item.entity>>

\* C15: a focus segment starting at t is credited to the domain if the
\* current app is a browser and a domain was set at most 300 s before t, to
\* the browser if the domain is stale or was never observed, to the app
\* itself if it is no browser, to the domain if no app is set, else to
\* nothing; in the timeline per event, in the blocks per slice of a block.
C15_EntityResolution ==
  [][FocusRead =>
       LET W == FocusWalk
       IN IF last'.op = "get_timeline_day"
          THEN LET segs == FocusSegments(last'.data.timeline)
               IN \A i \in 1..Len(W.fe) :
                    W.gap[i] > 0 =>
                      LET a == W.fe[i].ts
                          e == a + min(W.gap[i], W.cutoff)
                          over == { k \in 1..Len(segs) :
                                      segs[k].start_ts.inst <= a /\ e <= segs[k].end_ts.inst }
                      IN IF Credited(W, i, a) = <<>> THEN Covered(segs, a, e) = 0
                         ELSE /\ Cardinality(over) = 1
                              /\ \A k \in over : KeyOf(segs[k]) = Credited(W, i, a)
          ELSE \A k \in 1..Len(last'.data.blocks) :
                 LET b == last'.data.blocks[k]
                     keys == KeysIn(W, b)
                 IN /\ \A n \in 1..Len(b.top_items) :
                         b.top_items[n].seconds = CreditIn(W, b, KeyOf(b.top_items[n]), 1)
                    /\ Cardinality(keys) <= 5 =>
                         \A key \in keys :
                           CreditIn(W, b, key, 1) > 0 =>
                             \E n \in 1..Len(b.top_items) : KeyOf(b.top_items[n]) = key]_vars

\* the timeline of a day where the browser is focused 301 s after the tab
\* event, within the idle cutoff: the segment is the browser's
C15_Witness ==
  /\ last.op = "get_timeline_day"
  /\ LET W == FocusWalk
     IN \E j \in 1..Len(W.fe) :
          /\ W.gap[j] > 0
          /\ AppEventsAt(W, j) # {} /\ TabEventsAt(W, j) # {}
          /\ is_browser_app(CurrentApp(W, j))
          /\ W.fe[j].ts - CurrentDomain(W, j).ts = 301
          /\ \E y \in 1..Len(last.data.timeline) :
               /\ last.data.timeline[y].start_ts.inst = W.fe[j].ts
               /\ last.data.timeline[y].kind = "app"
               /\ last.data.timeline[y].entity = CurrentApp(W, j)

\* the same 300 s after the tab event: the time is the domain's
C15_WitnessFresh ==
  /\ last.op = "get_timeline_day"
  /\ LET W == FocusWalk
     IN \E i \in 1..Len(W.fe) :
          /\ W.gap[i] > 0
          /\ AppEventsAt(W, i) # {} /\ TabEventsAt(W, i) # {}
          /\ is_browser_app(CurrentApp(W, i))
          /\ W.fe[i].ts - CurrentDomain(W, i).ts = 300
          /\ \E x \in 1..Len(last.data.timeline) :
               /\ last.data.timeline[x].start_ts.inst <= W.fe[i].ts
               /\ last.data.timeline[x].end_ts.inst = W.fe[i].ts + W.gap[i]
               /\ last.data.timeline[x].kind = "domain"

\* the blocks of a day where a browser segment crosses into a block that
\* starts more than 300 s after the tab event
C15_WitnessBlocks ==
  /\ last.op = "get_blocks_today"
  /\ LET W == FocusWalk
     IN \E k \in 2..Len(last.data.blocks) :
          /\ \E n \in 1..Len(last.data.blocks[k - 1].top_items) :
               last.data.blocks[k - 1].top_items[n].kind = "domain"
          /\ \E i \in 1..Len(W.fe) :
               /\ W.fe[i].ts < last.data.blocks[k].start_ts.inst
               /\ Credited(W, i, W.fe[i].ts) # <<>>
               /\ Credited(W, i, W.fe[i].ts)[1] = "domain"
               /\ Credited(W, i, last.data.blocks[k].start_ts.inst)[1] = "app"
               /\ CreditIn(W, last.data.blocks[k],
                           Credited(W, i, last.data.blocks[k].start_ts.inst), 1) > 0

---------------------------------------------------------------------------
(* C16 *)

\* the normalized title of the claim: trimmed, a trailing " - YouTube"
\* stripped on youtube.com and its subdomains, none if nothing is left
NormTitle(domain, raw) ==
  IF is_none(raw) THEN None
  ELSE LET t == trim(unwrap(raw))
           u == IF /\ t # <<>> /\ t[Len(t)] = " - YouTube"
                   /\ (domain = YoutubeCom \/ IsSubdomainOf(domain, YoutubeCom))
                THEN trim(SubSeq(t, 1, Len(t) - 1)) ELSE t
       IN IF u = <<>> THEN None ELSE Some(u)

\* the title of the item the claim expects for a slice of event i credited
\* to key
TitleFor(W, i, key) ==
  IF key[1] = "domain" /\ settings.store_titles
  THEN NormTitle(key[2], CurrentDomain(W, i).title)
  ELSE None

\* the items the claim expects in block b: <<kind, entity, title>>
ItemsIn(W, b) ==
  { LET key == Credited(W, i, max(W.fe[i].ts, b.start_ts.inst))
    IN <<key[1], key[2], TitleFor(W, i, key)>> :
      i \in { j \in 1..Len(W.fe) :
                /\ Credited(W, j, max(W.fe[j].ts, b.start_ts.inst)) # <<>>
                /\ min(W.fe[j].ts + min(W.gap[j], W.cutoff), b.end_ts.inst)
                     > max(W.fe[j].ts, b.start_ts.inst) } }

ItemKey(item) == <<item.kind, item.entity, item.title>>

\* C16: with store_titles on, the top items of a block are one per domain
\* and normalized title (a trailing " - YouTube" stripped on youtube
\* domains); with store_titles off, and for app items, the title is no part
\* of the key and each (kind, entity) has exactly one item.
C16_TitleKeys ==
  [][HandlerStep("get_blocks_today") /\ last'.ok =>
       LET W == FocusWalk
       IN \A k \in 1..Len(last'.data.blocks) :
            LET b == last'.data.blocks[k]
                items == { ItemKey(b.top_items[n]) : n \in 1..Len(b.top_items) }
            IN /\ Cardinality(items) = Len(b.top_items)
               /\ Cardinality(ItemsIn(W, b)) <= 5 => items = ItemsIn(W, b)
               /\ \A n \in 1..Len(b.top_items) :
                    ~settings.store_titles \/ b.top_items[n].kind = "app" =>
                      /\ b.top_items[n].title = None
                      /\ \A m \in 1..Len(b.top_items) :
                           KeyOf(b.top_items[m]) = KeyOf(b.top_items[n]) => m = n]_vars

\* a block with two items of one domain under different titles, one of
\* them stripped of " - YouTube"
C16_Witness ==
  /\ last.op = "get_blocks_today"
  /\ settings.store_titles
  /\ \E k \in 1..Len(last.data.blocks) :
       \E n, m \in 1..Len(last.data.blocks[k].top_items) :
         LET x == last.data.blocks[k].top_items[n]
             y == last.data.blocks[k].top_items[m]
         IN /\ x.kind = "domain" /\ KeyOf(x) = KeyOf(y)
            /\ x.title = Some(<<"Video">>) /\ y.title = Some(<<"Other">>)
            /\ \E i \in 1..Len(events) :
                 events[i].title = Some(<<"Video", " - YouTube">>)

\* "Video - YouTube" and "Video " on youtube.com share one item
C16_WitnessMerged ==
  /\ last.op = "get_blocks_today"
  /\ settings.store_titles
  /\ \E i, j \in 1..Len(events) :
       /\ events[i].title = Some(<<"Video", " - YouTube">>)
       /\ events[j].title = Some(<<"Video", " ">>)
       /\ events[i].entity = Some(YoutubeCom) /\ events[j].entity = Some(YoutubeCom)
  /\ Len(last.data.blocks) = 1
  /\ Len(last.data.blocks[1].top_items) = 1
  /\ last.data.blocks[1].top_items[1].title = Some(<<"Video">>)
  /\ last.data.blocks[1].top_items[1].seconds = 2

\* the same domain and titles read with store_titles off: one item
C16_WitnessOff ==
  /\ last.op = "get_blocks_today"
  /\ ~settings.store_titles
  /\ \E i, j \in 1..Len(events) :
       /\ events[i].title = Some(<<"Video", " - YouTube">>)
       /\ events[j].title = Some(<<"Other">>)
  /\ Len(last.data.blocks) = 1
  /\ Len(last.data.blocks[1].top_items) = 1
  /\ last.data.blocks[1].top_items[1].title = None

---------------------------------------------------------------------------
(* C17 *)

\* the audio stream of today, the raw gap after each event and the audio
\* idle cutoff
AudioWalk ==
  LET ae == select_stream(TodayEvents(events), TRUE)
  IN [fe |-> ae, gap |-> [i \in 1..Len(ae) |-> next_ts_of(ae, i, now) - ae[i].ts],
      cutoff |-> min(IdleCutoff, 120)]

IsStop(e) == e.event \in {"tab_audio_stop", "app_audio_stop"}

AudioSegments(timeline) == SelectSeq(timeline, LAMBDA x : x.activity = Some("audio"))

\* the audio time the claim gives to [a, b]: of each audible event's clamped
\* gap the part inside, and nothing of a stop marker's
RECURSIVE AudibleIn(_, _, _, _)
AudibleIn(W, a, b, i) ==
  IF i > Len(W.fe) THEN 0
  ELSE (IF IsStop(W.fe[i]) THEN 0
        ELSE max(0, min(b, W.fe[i].ts + min(W.gap[i], W.cutoff)) - max(a, W.fe[i].ts)))
       + AudibleIn(W, a, b, i + 1)

BackgroundSeconds(b) ==
  IF is_some(b.background_seconds) THEN unwrap(b.background_seconds) ELSE 0

\* C17: in the audio walk of the timeline and in the background-audio
\* overlay of the blocks, a stop marker within the audio idle cutoff of the
\* event before it ends that event's segment at its own timestamp, and no
\* audio time is attributed from a stop marker to the next event of the
\* audio stream.
C17_StopEndsAudio ==
  [][FocusRead =>
       LET W == AudioWalk
       IN IF last'.op = "get_timeline_day"
          THEN LET segs == AudioSegments(last'.data.timeline)
               IN \A i \in 1..Len(W.fe) :
                    IsStop(W.fe[i]) =>
                      /\ W.gap[i] >= 0 =>
                           Covered(segs, W.fe[i].ts, W.fe[i].ts + W.gap[i]) = 0
                      /\ i > 1 /\ ~IsStop(W.fe[i - 1])
                           /\ W.gap[i - 1] > 0 /\ W.gap[i - 1] <= W.cutoff =>
                           \E k \in 1..Len(segs) :
                             /\ segs[k].end_ts.inst = W.fe[i].ts
                             /\ segs[k].start_ts.inst <= W.fe[i - 1].ts
                             /\ segs[k].entity = W.fe[i - 1].entity
          ELSE TodayFocus # <<>> =>
                 \A k \in 1..Len(last'.data.blocks) :
                   LET b == last'.data.blocks[k]
                   IN BackgroundSeconds(b)
                        = AudibleIn(W, b.start_ts.inst, b.end_ts.inst, 1)]_vars

\* the timeline of a day where an audible tab is stopped one second later and the
\* stop marker is followed by more than a second without audio
C17_Witness ==
  /\ last.op = "get_timeline_day"
  /\ LET W == AudioWalk
         segs == AudioSegments(last.data.timeline)
     IN \E i \in 2..Len(W.fe) :
          /\ IsStop(W.fe[i]) /\ ~IsStop(W.fe[i - 1])
          /\ W.gap[i - 1] = 1 /\ W.gap[i] > 1
          /\ \E k \in 1..Len(segs) : segs[k].end_ts.inst = W.fe[i].ts
          /\ Covered(segs, W.fe[i].ts, W.fe[i].ts + W.gap[i]) = 0

\* the blocks of such a day: a focus block spans the audible second and the
\* time after the stop marker and has one second in the background
C17_WitnessBlocks ==
  /\ last.op = "get_blocks_today"
  /\ LET W == AudioWalk
     IN \E i \in 2..Len(W.fe) :
          /\ IsStop(W.fe[i]) /\ ~IsStop(W.fe[i - 1])
          /\ W.gap[i - 1] = 1 /\ W.gap[i] > 1
          /\ \E k \in 1..Len(last.data.blocks) :
               /\ last.data.blocks[k].start_ts.inst <= W.fe[i - 1].ts
               /\ last.data.blocks[k].end_ts.inst >= W.fe[i].ts + 2
               /\ last.data.blocks[k].background_seconds = Some(1)

---------------------------------------------------------------------------
(* C18, C19, C20 *)

\* the blocks of today before their reviews are attached
DayBlocks == CHOOSE x \in block_summaries(TodayBlocks) : TRUE

ClampedMin == max(60, min(settings.review_min_seconds, 14400))

Blank(o) == is_none(o) \/ \A k \in 1..Len(unwrap(o)) : unwrap(o)[k] = " "

\* the review row of a block counts as done
DoneRow(x) ==
  \/ x.skipped = 1
  \/ ~Blank(x.doing) \/ ~Blank(x.output) \/ ~Blank(x.next)
  \/ x.tags_json.arr # <<>>

RowsFor(id) == {x \in block_reviews : x.block_id = id}

BigEnough(B, i) == B[i].total_seconds >= ClampedMin

\* not the last block, or full, or ended more than 30 s before now
Settled(B, i) ==
  \/ i < Len(B)
  \/ B[i].total_seconds >= BlockLen
  \/ now - B[i].end_ts.inst > 30

Qualifies(B, i) ==
  /\ BigEnough(B, i)
  /\ \A x \in RowsFor(B[i].id) : ~DoneRow(x)
  /\ Settled(B, i)

Qualifying(B) == {i \in 1..Len(B) : Qualifies(B, i)}

Latest1(S) == CHOOSE i \in S : \A j \in S : j <= i

DueRead == HandlerStep("get_blocks_due") /\ last'.ok

IsDue(r, b) == is_some(r.data.due) /\ [unwrap(r.data.due) EXCEPT !.review = None] = b

\* C18: get_blocks_due answers the latest block of the day that is long
\* enough to review, has no review that is done, and has a newer block after
\* it or is full or ended strictly more than 30 s before now; it answers
\* none when no block is such.
C18_DueIsLatestQualifying ==
  [][DueRead =>
       LET B == DayBlocks
           Q == Qualifying(B)
       IN IF Q = {} THEN last'.data.due = None
          ELSE IsDue(last', B[Latest1(Q)])]_vars

\* both blocks of the day qualify and the later one is answered
C18_Witness ==
  /\ last.op = "get_blocks_due" /\ last.ok
  /\ LET B == DayBlocks
     IN /\ Cardinality(Qualifying(B)) >= 2
        /\ IsDue(last, B[Len(B)])

\* an earlier block is answered because the later ones are reviewed or too
\* short
C18_WitnessEarlier ==
  /\ last.op = "get_blocks_due" /\ last.ok
  /\ LET B == DayBlocks
     IN /\ Len(B) >= 2 /\ IsDue(last, B[1])
        /\ \E x \in RowsFor(B[2].id) : DoneRow(x)

\* there are blocks and none is answered
C18_WitnessNone ==
  /\ last.op = "get_blocks_due" /\ last.ok
  /\ DayBlocks # <<>> /\ last.data.due = None
  /\ \E i \in 1..Len(DayBlocks) : BigEnough(DayBlocks, i) /\ RowsFor(DayBlocks[i].id) = {}

\* the last block of the day is partial and ended at most 30 s before now
Accruing(B) ==
  /\ B # <<>>
  /\ B[Len(B)].total_seconds < BlockLen
  /\ now - B[Len(B)].end_ts.inst <= 30

LastPartialDue(r, B) ==
  /\ B # <<>>
  /\ B[Len(B)].total_seconds < BlockLen
  /\ IsDue(r, B[Len(B)])

C19_WitnessNone ==
  /\ last.op = "get_blocks_due" /\ last.ok
  /\ LET B == DayBlocks
         W == FocusWalk
     IN /\ Len(B) = 1 /\ Accruing(B)
        /\ W.gap[Len(W.fe)] > 0 /\ W.gap[Len(W.fe)] <= W.cutoff
        /\ BigEnough(B, 1) /\ RowsFor(B[1].id) = {}
        /\ last.data.due = None

\* the blocks whose stored review is not done
Undone(B) == {i \in 1..Len(B) : \E x \in RowsFor(B[i].id) : ~DoneRow(x)}

\* C20: a stored review counts as done iff it is skipped, or one of doing,
\* output, next is non-blank after trimming, or it has a tag; a block whose
\* review is not done is answered as due when it is otherwise the one to
\* answer.
C20_ReviewDone ==
  [][DueRead =>
       LET B == DayBlocks
       IN /\ \A x \in block_reviews :
               block_is_reviewed(unwrap(get_review(block_reviews, x.block_id))) = DoneRow(x)
          /\ \A i \in Undone(B) :
               (/\ BigEnough(B, i) /\ Settled(B, i)
                /\ \A j \in (i + 1)..Len(B) : ~Qualifies(B, j))
                 => IsDue(last', B[i])
          /\ is_some(last'.data.due) =>
               (is_some(unwrap(last'.data.due).review)
                  => \E x \in RowsFor(unwrap(last'.data.due).id) : ~DoneRow(x))]_vars

\* the block answered as due has a stored review with blank fields only,
\* while reviews that are done are stored for other blocks
C20_Witness ==
  /\ last.op = "get_blocks_due" /\ last.ok
  /\ is_some(last.data.due)
  /\ \E x \in RowsFor(unwrap(last.data.due).id) :
       /\ ~DoneRow(x) /\ x.doing = Some(<<" ">>)
  /\ is_some(unwrap(last.data.due).review)

\* a block that would be answered is not, for a review with one tag only
C20_WitnessTags ==
  /\ last.op = "get_blocks_due" /\ last.ok
  /\ last.data.due = None
  /\ LET B == DayBlocks
     IN \E i \in 1..Len(B) :
          /\ BigEnough(B, i) /\ Settled(B, i)
          /\ \E x \in RowsFor(B[i].id) :
               x.skipped = 0 /\ Blank(x.doing) /\ Blank(x.output) /\ Blank(x.next)
                 /\ x.tags_json.arr # <<>>

---------------------------------------------------------------------------
(* C21, C22 *)

Survives(row) ==
  is_none(row.entity) \/ decision_for(privacy_rules, row.event, unwrap(row.entity)) # "Drop"

StoredRows == {events[i] : i \in 1..Len(events)}

IsAudible(row, kind) ==
  /\ row.event = kind
  /\ kind = "tab_active" => parse_activity_from_payload(row.payload_json) = Some(<<"audio">>)

AgeAt(row) == max(now - row.ts.inst, 0)

\* an audible event of the kind survives, is at most 120 s old, and no
\* surviving stop marker of the kind has a timestamp at or after it
ActiveAsClaimed(kind, stop) ==
  \E a \in StoredRows :
    /\ IsAudible(a, kind) /\ Survives(a)
    /\ AgeAt(a) <= 120
    /\ ~\E x \in StoredRows : x.event = stop /\ Survives(x) /\ x.ts.inst >= a.ts.inst

NowRead == HandlerStep("get_now") /\ last'.ok

Snapshot(r) == unwrap(r.data.now)

\* C21: in the Now snapshot tab_audio_active holds iff some surviving
\* tab_active/audio event is at most audio_ttl_seconds old and no surviving
\* tab_audio_stop is at or after it, app_audio_active likewise from app_audio
\* and app_audio_stop, and now_background_audio is present iff
\* app_audio_active.
C21_AudioActive ==
  [][NowRead =>
       /\ Snapshot(last').tab_audio_active = ActiveAsClaimed("tab_active", "tab_audio_stop")
       /\ Snapshot(last').app_audio_active = ActiveAsClaimed("app_audio", "app_audio_stop")
       /\ is_some(Snapshot(last').now_background_audio) = Snapshot(last').app_audio_active]_vars

\* the focus app of the snapshot when it is within the focus time to live
FreshApp(S) ==
  IF is_some(S.app_active) /\ AgeAt(unwrap(S.app_active)) <= S.focus_ttl_seconds
  THEN S.app_active ELSE None

TabFresh(S) == is_some(S.tab_focus) /\ AgeAt(unwrap(S.tab_focus)) <= S.focus_ttl_seconds

IsBrowserBinary(entity) == is_some(entity) /\ unwrap(entity) \in BrowserApps

BrowserFocused(S) ==
  \/ is_some(FreshApp(S)) /\ IsBrowserBinary(unwrap(FreshApp(S)).entity)
  \/ is_none(FreshApp(S)) /\ TabFresh(S)

C22_WitnessBrowser ==
  /\ last.op = "get_now" /\ last.ok
  /\ LET S == Snapshot(last)
     IN /\ is_some(S.now_focus_app) /\ unwrap(S.now_focus_app).entity = Some(ChromeExe)
        /\ is_some(S.tab_focus) /\ ~TabFresh(S)
        /\ S.now_using_tab = None

\* the focus app is stale and the tab in focus is fresh: the tab is reported
C22_WitnessTab ==
  /\ last.op = "get_now" /\ last.ok
  /\ LET S == Snapshot(last)
     IN /\ is_some(S.app_active) /\ S.now_focus_app = None
        /\ TabFresh(S) /\ S.now_using_tab = S.tab_focus

\* the audible tab is stopped and nothing is reported
C22_WitnessStopped ==
  /\ last.op = "get_now" /\ last.ok
  /\ LET S == Snapshot(last)
     IN /\ is_some(S.tab_audio) /\ AgeAt(unwrap(S.tab_audio)) <= S.audio_ttl_seconds
        /\ is_some(S.tab_audio_stop) /\ ~S.tab_audio_active
        /\ S.now_using_tab = None


---------------------------------------------------------------------------
(* C23: the day window of a date and an offset *)

\* a date of the Gregorian calendar, written "y-m-d"
IsCalendarDate(parts) ==
  /\ Len(parts) = 3
  /\ \A i \in 1..3 : is_some(parts[i])
  /\ LET y == unwrap(parts[1])
         m == unwrap(parts[2])
         d == unwrap(parts[3])
         leap == (y % 400 = 0) \/ (y % 4 = 0 /\ y % 100 # 0)
         long == m \in {1, 3, 5, 7, 8, 10, 12}
     IN /\ y <= 9999
        /\ m \in 1..12
        /\ d >= 1
        /\ d <= (IF m = 2 THEN (IF leap THEN 29 ELSE 28) ELSE IF long THEN 31 ELSE 30)

\* the date of the day numbered z from 1970-01-01, as <<y, m, d>>
CivilOfDay(z) ==
  LET n == z + 719468
      era == n \div 146097
      doe == n - era * 146097
      yoe == (doe - doe \div 1460 + doe \div 36524 - doe \div 146096) \div 365
      doy == doe - (365 * yoe + yoe \div 4 - yoe \div 100)
      mp == (5 * doy + 2) \div 153
      d == doy - (153 * mp + 2) \div 5 + 1
      m == IF mp < 10 THEN mp + 3 ELSE mp - 9
  IN <<yoe + era * 400 + (IF m <= 2 THEN 1 ELSE 0), m, d>>

\* the offset of a request, clamped to fourteen hours either side of UTC
ClampedOffset(v) ==
  IF is_none(v) THEN 0
  ELSE IF unwrap(v) < 0 - 840 THEN 0 - 840
  ELSE IF unwrap(v) > 840 THEN 840
  ELSE unwrap(v)

\* the clock reading at the offset tz (in minutes) of the instant t
LocalClock(t, tz) == t + 60 * tz

DeleteDayAnswered == last.op = "post_data_delete_day" /\ is_some(last.payload)

C23_WitnessEast ==
  /\ DeleteDayAnswered /\ last.ok
  /\ unwrap(last.payload).tz_offset_minutes = Some(60)
  /\ unwrap(last.data.deleted).start_ts.inst < 0
  /\ unwrap(last.data.deleted).events_deleted >= 1

\* a date no calendar has is refused
C23_WitnessInvalid ==
  /\ DeleteDayAnswered /\ ~last.ok /\ last.error = "invalid_date"
  /\ unwrap(last.payload).date = DateText(1971, 2, 29)


---------------------------------------------------------------------------
(* C24: the ids of the events *)

\* the ids a step gives to new rows
NewIds == IdsOf(events') \ IdsOf(events)

\* the claim as stated: an id given by a step is above every id given
\* before it, whatever was deleted or wiped in between
C24_NoIdReused ==
  [][\A id \in NewIds : \A old \in issued : id > old]_vars

\* C24: the id of a new row is above the AUTOINCREMENT sequence, which holds
\* the highest id given since the last wipe and is the highest id a stored
\* row can have; inserts and deletions of a block or a day never lower the
\* sequence, so between two wipes no id is given twice.  post_data_wipe
\* deletes the sequence: the ids start from 1 again after it.
C24_IdsIncrease ==
  [][/\ \A id \in NewIds : id > sqlite_sequence /\ id = sqlite_sequence'
     /\ \A id \in IdsOf(events') : id <= sqlite_sequence'
     /\ IF last'.op = "post_data_wipe" THEN sqlite_sequence' = 0
        ELSE sqlite_sequence' >= sqlite_sequence]_vars

\* an insert after the row with id 1 was deleted: the new row has id 2
C24_Witness ==
  /\ last.op = "post_event" /\ last.stored
  /\ Len(events) = 1 /\ events[1].id = 2

\* an insert after a wipe: id 1 is given a second time
C24_WitnessWipe ==
  /\ last.op = "post_event" /\ last.stored
  /\ Len(events) = 1 /\ events[1].id = 1 /\ sqlite_sequence = 1
  /\ Cardinality(issued) > 1


---------------------------------------------------------------------------
(* C25: the range query *)

\* the stored rows a query of [start, end) is to return: those with an
\* entity whose instant lies in the range
RowsInRange(start, end) ==
  {i \in DOMAIN events :
     /\ is_some(events[i].entity)
     /\ unwrap(Rfc3339Parse(events[i].ts)) >= start
     /\ unwrap(Rfc3339Parse(events[i].ts)) < end}

\* the rows of the answer that carry the instant t
AnsweredAt(got, t) == {k \in DOMAIN got : got[k].ts = t}

\* C25: the range query over the window of the current day returns one
\* record for every stored row with an entity whose instant lies in the
\* window and no other, in ascending order of the instants, whatever the
\* offset the timestamps were written with.
C25_RangeByInstant ==
  LET w == unwrap(day_window(TodayQuery, now))
      got == list_events_between(events, w.start, w.end, privacy_rules)
      rows == RowsInRange(w.start, w.end)
  IN /\ Len(got) = Cardinality(rows)
     /\ \A i \in rows :
          Cardinality(AnsweredAt(got, events[i].ts.inst))
            = Cardinality({j \in rows : events[j].ts.inst = events[i].ts.inst})
     /\ \A k \in 1..(Len(got) - 1) : got[k].ts <= got[k + 1].ts

\* two rows of the window, the earlier one written with an offset: the
\* answer of the range query has the later one first
C25_WitnessOffset ==
  /\ last.op = "get_timeline_day"
  /\ Len(events) = 2
  /\ events[1].ts.off = 1 /\ events[2].ts.off = 0
  /\ events[1].ts.inst < events[2].ts.inst
  /\ LET w == unwrap(day_window(TodayQuery, now))
         got == list_events_between(events, w.start, w.end, privacy_rules)
     IN Len(got) = 2 /\ got[1].ts > got[2].ts


---------------------------------------------------------------------------
(* C26: the audio polls of the windows collector *)

\* the iteration just run posted an event of this kind
PostedKind(c, kind) == \E i \in DOMAIN c.posted : c.posted[i].event = kind

PostedCount(c, kind) == Cardinality({i \in DOMAIN c.posted : c.posted[i].event = kind})

\* C26: an iteration whose audio poll failed posts no audio event and
\* leaves last_audio and last_audio_sent_at as they were; an iteration posts
\* app_audio_stop exactly when its poll succeeded, found no audio app and
\* last_audio was set, it posts it once and clears last_audio, and the
\* audio event posted before it was an app_audio: no second stop follows
\* before the next app_audio.
C26_StopOnlyOnSilence ==
  [][LET c == collector
         d == collector'
         failed == is_some(d.poll) /\ ~unwrap(d.poll).ok
         silent == is_some(d.poll) /\ unwrap(d.poll).ok /\ is_none(unwrap(d.poll).audio)
     IN /\ failed => /\ d.last_audio = c.last_audio
                     /\ d.last_audio_sent_at = c.last_audio_sent_at
                     /\ ~PostedKind(d, "app_audio") /\ ~PostedKind(d, "app_audio_stop")
        /\ PostedKind(d, "app_audio_stop") <=> silent /\ is_some(c.last_audio)
        /\ PostedKind(d, "app_audio_stop") =>
             /\ PostedCount(d, "app_audio_stop") = 1
             /\ c.last_audio_post = Some("app_audio")
             /\ d.last_audio = None]_vars

\* a poll fails while an audio app is known: nothing is posted for it
C26_Witness ==
  /\ is_some(collector.poll) /\ ~unwrap(collector.poll).ok
  /\ is_some(collector.last_audio)
  /\ ~PostedKind(collector, "app_audio_stop")

\* the stop marker of an audio app that went silent
C26_WitnessStop ==
  /\ PostedKind(collector, "app_audio_stop")
  /\ collector.last_audio = None

\* a second silent poll after the stop posts nothing
C26_WitnessOnce ==
  /\ is_some(collector.poll) /\ unwrap(collector.poll).ok
  /\ is_none(unwrap(collector.poll).audio)
  /\ collector.last_audio_post = Some("app_audio_stop")
  /\ ~PostedKind(collector, "app_audio_stop")


---------------------------------------------------------------------------
(* C27: the attempts of the report scheduler *)

\* the report ids whose generation a step of the loop starts
StartedNow ==
  {p[1] : p \in {q \in scheduler'.started : q \notin scheduler.started}}

\* the cooldown of a report id, by its kind
CooldownOf(rid) == IF rid[1] = "daily" THEN 3600 ELSE 6 * 3600

\* the stored report of rid has an output and no error
StoredGood(rid) ==
  \E r \in reports :
    /\ r.id = rid
    /\ is_some(r.output_md) /\ trim(unwrap(r.output_md)) # <<>>
    /\ is_none(r.error) \/ trim(unwrap(r.error)) = <<>>

\* C27: when the loop starts the generation of a report id, its previous
\* start for that id, if any, lies a full cooldown back (1 h for a daily
\* report, 6 h for a weekly one; a start is dated by the instant the loop
\* took for it), and the report stored under the id is not good.
C27_OneAttemptPerCooldown ==
  [][\A rid \in StartedNow :
       /\ is_some(map_get(scheduler.started, rid)) =>
            unwrap(map_get(scheduler'.started, rid)).at
              - unwrap(map_get(scheduler.started, rid)).at >= CooldownOf(rid)
       /\ ~StoredGood(rid)]_vars

\* a second start for a daily report whose first attempt failed, one hour
\* after the first
C27_Witness ==
  \E p \in scheduler.started :
    /\ p[1][1] = "daily" /\ p[2].n = 2 /\ p[2].at = 3600
    /\ scheduler.pc = "daily_llm"

\* ten seconds before the hour is over the loop passes the failed report by
C27_WitnessThrottled ==
  /\ now = 3570 /\ scheduler.pc = "weekly"
  /\ \E p \in scheduler.started : p[1][1] = "daily" /\ p[2].at = 0
  /\ \E r \in reports : r.id = report_id_daily(date_local(now) - 1) /\ is_some(r.error)

\* a good report stored between the loop's look at the table and its call
\* of generate_daily_report: the call returns it and starts nothing
C27_WitnessGood ==
  /\ scheduler.pc = "weekly" /\ scheduler.started = {}
  /\ map_get(scheduler.last_attempt, report_id_daily(date_local(now) - 1)) = Some(now)
  /\ StoredGood(report_id_daily(date_local(now) - 1))

\* a second start for the weekly report, six hours after the first
C27_WitnessWeekly ==
  \E p \in scheduler.started : p[1][1] = "weekly" /\ p[2].n = 2 /\ p[2].at = 21600


---------------------------------------------------------------------------
(* C28, C29: concurrent post_settings and post_event *)

\* a post_settings that switched the titles off has returned
TitlesOffReturned == \E r \in inflight.returned : r.req.store_titles = Some(FALSE)

\* C28: once a post_settings that sets store_titles = false has returned
\* (no request of the scenario switches the titles on again), the rows
\* inserted from then on have no title, however the handlers interleave.
C28_NoTitleAfterOff ==
  [][TitlesOffReturned =>
       \A i \in DOMAIN events' : events'[i].id \in NewIds => events'[i].title = None]_vars

\* an event inserted with its title after the post_settings that switched
\* the titles off returned, while the settings in memory have them off: its
\* handler had copied the settings before
C28_WitnessStaleCopy ==
  /\ TitlesOffReturned /\ ~settings.store_titles
  /\ last.op = "post_event" /\ last.stored
  /\ events[Len(events)].title # None

\* the titles are on again after the post_settings that switched them off
\* returned: a post_settings of another field wrote its older copy back
C28_WitnessSwitchedOn ==
  /\ TitlesOffReturned /\ settings.store_titles
  /\ inflight.handlers = {}

SettingsFields ==
  {"block_seconds", "idle_cutoff_seconds", "store_titles", "store_exe_path",
   "review_min_seconds", "review_notify_repeat_minutes", "review_notify_when_paused",
   "review_notify_when_idle"}

\* every handler that entered has returned
AllReturned == inflight.handlers = {} /\ inflight.returned # {}

\* C29: when all the post_settings handlers have returned, the settings in
\* memory are those of the app_settings row, and a field that exactly one of
\* the requests set has the value that request gave it.
C29_NoLostUpdate ==
  AllReturned =>
    /\ is_some(app_settings) /\ unwrap(app_settings).settings = settings
    /\ \A r \in inflight.returned : \A f \in SettingsFields :
         /\ is_some(r.req[f])
         /\ \A q \in inflight.returned : q.id # r.id => is_none(q.req[f])
         => settings[f] = unwrap(r.req[f])

\* two requests on different fields have returned and the first one's field
\* is back at its old value, in memory and in the row
C29_WitnessLost ==
  /\ AllReturned
  /\ \E r \in inflight.returned : r.req.store_titles = Some(FALSE)
  /\ \E r \in inflight.returned : r.req.block_seconds = Some(120)
  /\ settings.store_titles /\ settings.block_seconds = 120
  /\ unwrap(app_settings).settings = settings

\* two requests have returned and the row holds the settings of the one,
\* the memory those of the other
C29_WitnessSplit ==
  /\ AllReturned
  /\ unwrap(app_settings).settings # settings

---------------------------------------------------------------------------
(* The pause endpoints with deadlines ahead of, at and behind the clock.   *)

\* a deadline already behind the clock, written in UTC or an hour east of it
PastPauseRequests(t) ==
  { [minutes |-> None, until_ts |-> Some(TextAt(t - 30, off))] : off \in {0, 1} }

InitPause ==
  /\ now = 0
  /\ tracking_state = InitialTrackingState
  /\ events = <<>>
  /\ sqlite_sequence = 0
  /\ privacy_rules = {}
  /\ settings = DefaultSettings
  /\ block_reviews = {}
  /\ last = NoRequest
  /\ InitAux

NextPause ==
  \/ GetTrackingStatus
  \/ \E req \in PauseRequests(now) \cup PastPauseRequests(now) : PostTrackingPause(req)
  \/ PostTrackingResume
  \/ Tick

SpecPause == InitPause /\ [][NextPause]_vars

---------------------------------------------------------------------------
(* C30 *)

TrackingOps == {"get_tracking_status", "post_tracking_pause", "post_tracking_resume"}

\* this step is a tracking endpoint answering with a TrackingStatus; the
\* handlers read the clock once, so the answer is given at now
TrackingAnswered(ops) ==
  /\ now' = now
  /\ last'.op \in ops
  /\ is_some(last'.status)

\* paused implies no deadline, or a deadline strictly later than t
StatusAhead(status, t) ==
  status.paused =>
    \/ is_none(status.paused_until_ts)
    \/ LET until == Rfc3339Parse(unwrap(status.paused_until_ts))
       IN is_some(until) /\ unwrap(until) > t

\* C30: every TrackingStatus returned by status, pause or resume at time now
\* has paused = true only with paused_until_ts absent or strictly later than
\* now; a pause request with until_ts in the past never answers paused = true
C30_PausedOnlyAhead ==
  [][TrackingAnswered(TrackingOps) => StatusAhead(unwrap(last'.status), now)]_vars

\* the same statement for the two endpoints that go through
\* tracking_is_paused or set_tracking_resume
C30_StatusAndResume ==
  [][TrackingAnswered({"get_tracking_status", "post_tracking_resume"})
       => StatusAhead(unwrap(last'.status), now)]_vars

\* a pause request with a deadline behind the clock answered paused = true
C30_WitnessPast ==
  /\ last.op = "post_tracking_pause"
  /\ is_some(last.status)
  /\ unwrap(last.status).paused
  /\ is_some(unwrap(last.status).paused_until_ts)
  /\ unwrap(last.status).paused_until_ts = tracking_state.paused_until_ts
  /\ unwrap(Rfc3339Parse(unwrap(unwrap(last.status).paused_until_ts))) < now

\* the next status read of such a row reports it resumed
C30_WitnessResumed ==
  /\ last.op = "get_tracking_status"
  /\ last.auto_resumed
  /\ ~unwrap(last.status).paused

---------------------------------------------------------------------------
(* Blocks of a log whose timestamps are written with different UTC        *)
(* offsets: the range query orders the rows by the text of ts.            *)

MaxZones == 2

\* an app in focus, stamped in UTC or an hour east of it; the gaps are none,
\* one block length and one beyond the idle cutoff
ZoneSteps ==
  { StepAt("app_active", None, Some(JStr(a)), None, g, off) :
      a \in {CodeExe, ChromeExe}, g \in {0, 60, 1000}, off \in {0, 1} }

InitZones ==
  /\ tracking_state = InitialTrackingState
  /\ privacy_rules = {}
  /\ settings = [DefaultSettings EXCEPT !.block_seconds = 60]
  /\ block_reviews = {}
  /\ last = NoRequest
  /\ \E w \in Walks(ZoneSteps, MaxZones) :
       /\ events = LogAt(w, settings)
       /\ sqlite_sequence = Len(w)
       /\ now = EndOf(w)
       /\ InitAux

SpecZones == InitZones /\ [][NextBlocks]_vars

---------------------------------------------------------------------------
(* C31 *)

BlocksRead == last.op = "get_blocks_today"

\* C31: within one build_blocks result the block ids (= start_ts) are
\* pairwise distinct and strictly increasing in block order, as texts (the
\* order ids sort in) and as instants (the chronological order)
C31_IdsIncreasing ==
  BlocksRead =>
    \A i, j \in 1..Len(last.data.blocks) :
      i < j =>
        LET a == last.data.blocks[i]
            b == last.data.blocks[j]
        IN /\ a.id = a.start_ts /\ b.id = b.start_ts
           /\ a.id # b.id
           /\ TsText(a.id) < TsText(b.id)
           /\ a.id.inst < b.id.inst

\* the ids of one answer are pairwise distinct texts
C31_IdsDistinct ==
  BlocksRead =>
    \A i, j \in 1..Len(last.data.blocks) :
      i # j => last.data.blocks[i].id # last.data.blocks[j].id

\* two blocks in one answer whose ids sort one way and start the other way
C31_WitnessDisorder ==
  /\ BlocksRead
  /\ \E i \in 1..(Len(last.data.blocks) - 1) :
       /\ TsText(last.data.blocks[i].id) < TsText(last.data.blocks[i + 1].id)
       /\ last.data.blocks[i].id.inst > last.data.blocks[i + 1].id.inst

\* an answer of several blocks read from a log written in UTC
C31_WitnessUtc ==
  /\ BlocksRead
  /\ Len(last.data.blocks) >= 2
  /\ \A k \in 1..Len(events) : events[k].ts.off = 0

---------------------------------------------------------------------------
(* C32 *)

\* the focus segments get_timeline_day answers for the log and clock of the
\* last blocks read
TodayFocusSegments ==
  FocusSegments(build_timeline_segments(TodayEvents(events), settings, now))

EntityKeys(items) == { <<items[i].kind, items[i].entity>> : i \in 1..Len(items) }

RECURSIVE SecondsOf(_, _)
SecondsOf(items, key) ==
  IF items = <<>> THEN 0
  ELSE (IF <<Head(items).kind, Head(items).entity>> = key THEN Head(items).seconds ELSE 0)
       + SecondsOf(Tail(items), key)

RECURSIVE TotalSeconds(_)
TotalSeconds(blocks) ==
  IF blocks = <<>> THEN 0 ELSE Head(blocks).total_seconds + TotalSeconds(Tail(blocks))

RECURSIVE AllTopItems(_)
AllTopItems(blocks) ==
  IF blocks = <<>> THEN <<>> ELSE Head(blocks).top_items \o AllTopItems(Tail(blocks))

\* no block of the answer lost an item to the truncation to five
Untruncated(blocks) ==
  \A i \in 1..Len(blocks) : SumSeconds(blocks[i].top_items) = blocks[i].total_seconds

\* C32: for the same events, settings and now with a non-empty focus stream
\* the sum of seconds over the focus timeline segments equals the sum of
\* total_seconds over the blocks, and the seconds credited to each
\* (kind, entity) agree
C32_SameFocusTime ==
  BlocksRead /\ TodayFocus # <<>> =>
    LET segs == TodayFocusSegments
        items == AllTopItems(last.data.blocks)
    IN /\ SumSeconds(segs) = TotalSeconds(last.data.blocks)
       /\ Untruncated(last.data.blocks) =>
            \A key \in EntityKeys(segs) \cup EntityKeys(items) :
              SecondsOf(segs, key) = SecondsOf(items, key)

\* the totals alone: both walks account for the same number of seconds
C32_SameTotal ==
  BlocksRead /\ TodayFocus # <<>> =>
    SumSeconds(TodayFocusSegments) = TotalSeconds(last.data.blocks)

\* one timeline segment credited to a domain while the blocks credit part of
\* the same seconds to the browser
C32_WitnessSplit ==
  /\ BlocksRead
  /\ Untruncated(last.data.blocks)
  /\ SumSeconds(TodayFocusSegments) = TotalSeconds(last.data.blocks)
  /\ \E key \in EntityKeys(AllTopItems(last.data.blocks)) :
       /\ key[1] = "app"
       /\ SecondsOf(AllTopItems(last.data.blocks), key) > SecondsOf(TodayFocusSegments, key)

---------------------------------------------------------------------------
(* C33 *)

\* the bucket key of an audible event, up to the title
AudioKey(e) == <<IF e.event = "app_audio" THEN "app" ELSE "domain", e.entity>>

\* brute force: the seconds the audio segments of key share with [a, b]
RECURSIVE KeyOverlap(_, _, _, _, _)
KeyOverlap(W, key, a, b, i) ==
  IF i > Len(W.fe) THEN 0
  ELSE (IF IsStop(W.fe[i]) \/ AudioKey(W.fe[i]) # key \/ W.gap[i] <= 0 THEN 0
        ELSE max(0, min(b, W.fe[i].ts + min(W.gap[i], W.cutoff)) - max(a, W.fe[i].ts)))
       + KeyOverlap(W, key, a, b, i + 1)

AudioKeys(W) == { AudioKey(W.fe[i]) : i \in 1..Len(W.fe) }

BlocksSorted(blocks) ==
  \A k \in 1..(Len(blocks) - 1) : blocks[k].start_ts.inst <= blocks[k + 1].start_ts.inst

\* C33: with the blocks sorted by start and the audio events ascending, the
\* sweep of attach_background_audio gives each block, per key, the sum over
\* the audio segments of their overlap with the block; background_seconds is
\* the sum over the keys and at most end_ts - start_ts
C33_SweepIsBruteForce ==
  BlocksRead /\ TodayFocus # <<>> /\ BlocksSorted(last.data.blocks)
    /\ Ascending(select_stream(TodayEvents(events), TRUE)) =>
    LET W == AudioWalk
    IN \A k \in 1..Len(last.data.blocks) :
         LET b == last.data.blocks[k]
         IN /\ \A key \in AudioKeys(W) \cup EntityKeys(b.background_top_items) :
                 SecondsOf(b.background_top_items, key)
                   = KeyOverlap(W, key, b.start_ts.inst, b.end_ts.inst, 1)
            /\ BackgroundSeconds(b) = SumSeconds(b.background_top_items)
            /\ BackgroundSeconds(b) <= b.end_ts.inst - b.start_ts.inst

\* one audio segment shared by two consecutive blocks, the sweep standing on
\* the first of them when the segment starts
C33_Witness ==
  /\ BlocksRead
  /\ \E k \in 1..(Len(last.data.blocks) - 1) :
       LET b == last.data.blocks[k]
           c == last.data.blocks[k + 1]
       IN \E i \in 1..Len(AudioWalk.fe) :
            LET e == AudioWalk.fe[i]
            IN /\ ~IsStop(e)
               /\ b.start_ts.inst < e.ts /\ e.ts < b.end_ts.inst
               /\ e.ts + min(AudioWalk.gap[i], AudioWalk.cutoff) > c.start_ts.inst
               /\ SecondsOf(b.background_top_items, AudioKey(e)) > 0
               /\ SecondsOf(c.background_top_items, AudioKey(e)) > 0

\* a block with two keys in its background
C33_WitnessTwoKeys ==
  /\ BlocksRead
  /\ \E k \in 1..Len(last.data.blocks) : Len(last.data.blocks[k].background_top_items) = 2

---------------------------------------------------------------------------
(* Blocks read, reviewed and deleted by their id.                          *)

MaxDelete == 2

\* two apps in focus for half a block, a block, or two blocks and a half
DeleteSteps ==
  { Step("app_active", None, Some(JStr(a)), None, None, g) :
      a \in {CodeExe, ChromeExe}, g \in {30, 60, 150} }

\* a review that marks the block done
SkippedReview(id) ==
  [block_id |-> id, skipped |-> TRUE, skip_reason |-> Some(<<"busy">>),
   doing |-> None, output |-> None, next |-> None, tags |-> <<>>]

\* delete by block_id alone
DeleteById(id) == [block_id |-> Some(id), start_ts |-> None, end_ts |-> None]

InitDelete ==
  /\ tracking_state = InitialTrackingState
  /\ privacy_rules = {}
  /\ settings = [DefaultSettings EXCEPT !.block_seconds = 60]
  /\ block_reviews = {}
  /\ last = NoRequest
  /\ \E w \in Walks(DeleteSteps, MaxDelete) :
       /\ events = LogOf(w, settings)
       /\ sqlite_sequence = Len(w)
       /\ now = EndOf(w)
       /\ InitAux

NextDelete ==
  \/ GetBlocksToday(TodayQuery)
  \/ \E id \in ReadIds : PostBlockReview(SkippedReview(id))
  \/ \E id \in ReadIds : PostBlockDelete(DeleteById(id))

SpecDelete == InitDelete /\ [][NextDelete]_vars

---------------------------------------------------------------------------
(* C34 *)

\* the blocks a read of the day builds from a log
BlocksOf(log) ==
  build_blocks(list_events_between(log, 0, SECONDS_PER_DAY, privacy_rules), settings, now)

BlockId(blk) == TextAt(blk.start, blk.start_off)

SameBlock(x, y) ==
  /\ BlockId(x) = BlockId(y)
  /\ x.start = y.start /\ x.end = y.end /\ x.end_off = y.end_off
  /\ x.total_seconds = y.total_seconds

\* the id a successful post_block_delete was asked for
DeletedId == unwrap(last'.data.deleted).start_ts

BlockDeleted ==
  /\ HandlerStep("post_block_delete") /\ last'.ok
  /\ \E i \in 1..Len(BlocksOf(events)) : BlockId(BlocksOf(events)[i]) = DeletedId

\* C34: deleting one block by its block_id, with no end_ts, removes that
\* block only: every other block of the day is returned by the next read
\* with the same id, start_ts, end_ts and total_seconds and keeps its review
C34_DeleteOnlyThatBlock ==
  [][BlockDeleted =>
       LET before == BlocksOf(events)
           after == BlocksOf(events')
       IN /\ \A j \in 1..Len(after) : BlockId(after[j]) # DeletedId
          /\ \A i \in 1..Len(before) :
               BlockId(before[i]) # DeletedId =>
                 /\ \E j \in 1..Len(after) : SameBlock(before[i], after[j])
                 /\ \A r \in block_reviews :
                      r.block_id = BlockId(before[i]) => r \in block_reviews']_vars

\* the review rows of the other blocks are left alone
C34_ReviewsKept ==
  [][BlockDeleted =>
       \A r \in block_reviews : r.block_id # DeletedId => r \in block_reviews']_vars

\* the block asked for is still there after the delete: no event lies in it
C34_WitnessStillThere ==
  /\ last.op = "post_block_delete" /\ last.ok
  /\ unwrap(last.data.deleted).events_deleted = 0
  /\ \E j \in 1..Len(BlocksOf(events)) :
       BlockId(BlocksOf(events)[j]) = unwrap(last.data.deleted).start_ts

\* the delete of one block took every block of the day with it
C34_WitnessAllGone ==
  /\ last.op = "post_block_delete" /\ last.ok
  /\ unwrap(last.data.deleted).events_deleted = 1
  /\ events = <<>>
  /\ block_reviews # {}

---------------------------------------------------------------------------
(* C35 *)

\* the blocks were built from the audio stream alone
AudioPrimaryRead ==
  /\ BlocksRead
  /\ TodayFocus = <<>>
  /\ select_stream(TodayEvents(events), TRUE) # <<>>

\* the seconds of the day that follow an audible event within its clamped gap
AudibleSeconds == AudibleIn(AudioWalk, 0, SECONDS_PER_DAY, 1)

\* instant t lies in the clamped gap of an audible event
AudibleAt(W, t) ==
  \E i \in 1..Len(W.fe) :
    /\ ~IsStop(W.fe[i])
    /\ W.fe[i].ts <= t /\ t < W.fe[i].ts + min(W.gap[i], W.cutoff)

\* C35: when the blocks are built from the audio stream alone, no seconds
\* between a stop marker and the next audible event are added to any bucket,
\* and each block's start_ts is the timestamp of its first attributed second
C35_StopsEndAttribution ==
  AudioPrimaryRead =>
    /\ TotalSeconds(last.data.blocks) = AudibleSeconds
    /\ \A k \in 1..Len(last.data.blocks) :
         AudibleAt(AudioWalk, last.data.blocks[k].start_ts.inst)

\* seconds after a stop marker are in a bucket: the other register was set
C35_WitnessAfterStop ==
  /\ AudioPrimaryRead
  /\ TotalSeconds(last.data.blocks) > AudibleSeconds

\* only audible seconds are credited, and a block starts on a second that
\* is not one of them
C35_WitnessEarlyStart ==
  /\ AudioPrimaryRead
  /\ TotalSeconds(last.data.blocks) = AudibleSeconds
  /\ \E k \in 1..Len(last.data.blocks) :
       ~AudibleAt(AudioWalk, last.data.blocks[k].start_ts.inst)

\* a stop marker that ends the attribution, in a block that starts on its
\* first attributed second
C35_WitnessStopped ==
  /\ AudioPrimaryRead
  /\ \E i \in 1..Len(AudioWalk.fe) : IsStop(AudioWalk.fe[i]) /\ AudioWalk.gap[i] > 0
  /\ TotalSeconds(last.data.blocks) = AudibleSeconds
  /\ Len(last.data.blocks) > 0
  /\ \A k \in 1..Len(last.data.blocks) :
       AudibleAt(AudioWalk, last.data.blocks[k].start_ts.inst)

---------------------------------------------------------------------------
(* C36 *)

\* the registers as the claim has them: every event up to i counts, whatever
\* its gap, unless a gap above the idle cutoff lies between it and i
CountsAlways(W, j, i) == \A k \in j..(i - 1) : W.gap[k] <= W.cutoff
AppEventsAlways(W, i) ==
  { j \in 1..i : CountsAlways(W, j, i) /\ W.fe[j].event # "tab_active" }
TabEventsAlways(W, i) ==
  { j \in 1..i : CountsAlways(W, j, i) /\ W.fe[j].event = "tab_active" }

CreditedAlways(W, i, t) ==
  LET apps == AppEventsAlways(W, i)
      tabs == TabEventsAlways(W, i)
  IN IF apps # {}
     THEN IF /\ is_browser_app(W.fe[Latest(apps)].entity)
             /\ tabs # {}
             /\ t - W.fe[Latest(tabs)].ts <= DOMAIN_FRESHNESS_SECONDS
          THEN <<"domain", W.fe[Latest(tabs)].entity>>
          ELSE <<"app", W.fe[Latest(apps)].entity>>
     ELSE IF tabs # {} THEN <<"domain", W.fe[Latest(tabs)].entity>>
     ELSE <<>>

RECURSIVE CreditInAlways(_, _, _, _)
CreditInAlways(W, b, key, i) ==
  IF i > Len(W.fe) THEN 0
  ELSE LET a == W.fe[i].ts
           from == max(a, b.start_ts.inst)
           to == min(a + min(W.gap[i], W.cutoff), b.end_ts.inst)
       IN (IF to > from /\ CreditedAlways(W, i, from) = key THEN to - from ELSE 0)
          + CreditInAlways(W, b, key, i + 1)

\* a focus event that shares its timestamp with the next one
ZeroGapAt(W, j) == j < Len(W.fe) /\ W.gap[j] = 0

\* C36: every focus event updates the walk's registers, also when its gap to
\* the next event is zero or negative: it contributes no segment, and its
\* app or domain is the one later segments are resolved with
C36_ZeroGapUpdatesRegisters ==
  BlocksRead \/ last.op = "get_timeline_day" =>
    LET W == FocusWalk
    IN IF last.op = "get_timeline_day"
       THEN LET segs == FocusSegments(last.data.timeline)
            IN \A i \in 1..Len(W.fe) :
                 W.gap[i] > 0 =>
                   LET a == W.fe[i].ts
                       e == a + min(W.gap[i], W.cutoff)
                   IN IF CreditedAlways(W, i, a) = <<>> THEN Covered(segs, a, e) = 0
                      ELSE \E k \in 1..Len(segs) :
                             /\ segs[k].start_ts.inst <= a /\ e <= segs[k].end_ts.inst
                             /\ KeyOf(segs[k]) = CreditedAlways(W, i, a)
       ELSE \A k \in 1..Len(last.data.blocks) :
              \A n \in 1..Len(last.data.blocks[k].top_items) :
                LET item == last.data.blocks[k].top_items[n]
                IN item.seconds = CreditInAlways(W, last.data.blocks[k], KeyOf(item), 1)

\* an app that takes the focus at the instant of the next event and is
\* credited with none of the seconds that follow
C36_WitnessForgotten ==
  /\ last.op = "get_timeline_day"
  /\ LET W == FocusWalk
         segs == FocusSegments(last.data.timeline)
     IN \E j \in 1..Len(W.fe) :
          /\ ZeroGapAt(W, j)
          /\ W.fe[j].event = "app_active"
          /\ W.fe[j + 1].event = "tab_active"
          /\ W.gap[j + 1] > 0
          /\ CreditedAlways(W, j + 1, W.fe[j + 1].ts) = <<"app", W.fe[j].entity>>
          /\ \E k \in 1..Len(segs) :
               /\ segs[k].start_ts.inst = W.fe[j + 1].ts
               /\ KeyOf(segs[k]) = <<"domain", W.fe[j + 1].entity>>

\* the same day read as blocks
C36_WitnessBlocks ==
  /\ BlocksRead
  /\ LET W == FocusWalk
     IN \E j \in 1..Len(W.fe) :
          /\ ZeroGapAt(W, j)
          /\ W.fe[j].event = "app_active"
          /\ W.gap[j + 1] > 0
          /\ \E k \in 1..Len(last.data.blocks) :
               \E n \in 1..Len(last.data.blocks[k].top_items) :
                 LET item == last.data.blocks[k].top_items[n]
                 IN item.seconds # CreditInAlways(W, last.data.blocks[k], KeyOf(item), 1)

---------------------------------------------------------------------------
(* The review notification of the windows collector's loop                 *)
(* (src/collectors/windows_collector/src/main.rs, windows_main 157-161 and *)
(* 294-313, maybe_notify_due_review_block 367-597).  The answers of the    *)
(* core to GET /tracking/status and GET /blocks/due are inputs of the      *)
(* iteration; review records what the check of the iteration was answered  *)
(* and toast the block a toast was shown for.                              *)

MaxNotifyNow == 300

\* Args with review notifications on, a check every 30 s; track_audio is
\* off, so that the audio part of the iteration does nothing
NotifyArgs(repeat_minutes, when_paused) ==
  [poll_ms |-> 30000, heartbeat_seconds |-> 60, idle_cutoff_seconds |-> 300,
   send_title |-> FALSE, track_audio |-> FALSE,
   review_notify |-> TRUE, review_notify_when_paused |-> when_paused,
   review_notify_when_idle |-> FALSE, review_notify_check_seconds |-> 30,
   review_notify_repeat_minutes |-> repeat_minutes]

\* the locals of windows_main before the first iteration, those of the
\* review notification included
NotifyStart(args, t) ==
  [args |-> args, last_key |-> None, last_sent_at |-> t,
   last_audio |-> None, last_audio_sent_at |-> t,
   poll |-> None, posted |-> <<>>, last_audio_post |-> None,
   last_review_check |-> t - args.review_notify_check_seconds,
   review_snooze_until |-> None, last_review_notified_block_id |-> None,
   review |-> None, toast |-> None]

\* what the core answers: Err, or the status / the due block's id
TrackingAnswers == { [ok |-> FALSE, paused |-> FALSE], [ok |-> TRUE, paused |-> FALSE],
                     [ok |-> TRUE, paused |-> TRUE] }
DueAnswers ==
  { [ok |-> FALSE, block |-> None], [ok |-> TRUE, block |-> None],
    [ok |-> TRUE, block |-> Some(Rfc3339Format(0))],
    [ok |-> TRUE, block |-> Some(Rfc3339Format(60))] }

\* maybe_notify_due_review_block
maybe_notify_due_review_block(c, tracking, due, t) ==
  IF is_some(c.review_snooze_until) /\ t < unwrap(c.review_snooze_until) THEN c
  ELSE IF ~tracking.ok THEN c
  ELSE IF tracking.paused /\ ~c.args.review_notify_when_paused THEN c
  ELSE IF ~due.ok \/ is_none(due.block) THEN c
  ELSE LET id == unwrap(due.block)
           should_notify == c.last_review_notified_block_id # Some(id)
       IN IF ~should_notify /\ is_some(c.review_snooze_until) THEN c
          ELSE [c EXCEPT !.toast = Some(id),
                         !.last_review_notified_block_id = Some(id),
                         !.review_snooze_until =
                           Some(t + max(c.args.review_notify_repeat_minutes, 1) * 60)]

\* the review part of the iteration
review_step(c, idle_s, tracking, due, t) ==
  IF c.args.review_notify
     /\ (c.args.review_notify_when_idle \/ idle_s < c.args.idle_cutoff_seconds)
     /\ t - c.last_review_check >= c.args.review_notify_check_seconds
  THEN maybe_notify_due_review_block(
         [c EXCEPT !.last_review_check = t,
                   !.review = Some([at |-> t, tracking |-> tracking, due |-> due])],
         tracking, due, t)
  ELSE c

\* one iteration of the loop with its review part, and its sleep
CollectorLoopNotify(idle_s, fg, poll, tracking, due) ==
  LET c0 == [collector EXCEPT !.posted = <<>>, !.poll = None, !.review = None,
                              !.toast = None]
      c1 == foreground_step(c0, idle_s, fg, now)
      c2 == audio_step(c1, poll, now)
  IN /\ now + collector.args.poll_ms \div 1000 <= MaxNotifyNow
     /\ collector' = review_step(c2, idle_s, tracking, due, now)
     /\ now' = now + collector.args.poll_ms \div 1000
     /\ UNCHANGED <<tracking_state, events, sqlite_sequence, privacy_rules, settings,
                    block_reviews, last, reports, app_settings, inflight, scheduler,
                    issued>>

RepeatMinutes == {0, 1, 2}

InitNotify ==
  /\ now = 0
  /\ tracking_state = InitialTrackingState
  /\ events = <<>>
  /\ sqlite_sequence = 0
  /\ privacy_rules = {}
  /\ settings = DefaultSettings
  /\ block_reviews = {}
  /\ last = NoRequest
  /\ reports = {}
  /\ app_settings = None
  /\ inflight = NoHandlers
  /\ scheduler = None
  /\ issued = {}
  /\ \E repeat_minutes \in RepeatMinutes, when_paused \in BOOLEAN :
       collector = NotifyStart(NotifyArgs(repeat_minutes, when_paused), now)

NextNotify ==
  \E idle_s \in IdleReadings, fg \in ForegroundApps,
     tracking \in TrackingAnswers, due \in DueAnswers :
    CollectorLoopNotify(idle_s, fg, [ok |-> TRUE, audio |-> None], tracking, due)

SpecNotify == InitNotify /\ [][NextNotify]_vars

(* C37: the repetition of the review toast *)

\* the check of the iteration asked the core and was answered that block id
\* is due, with the conditions of a notification met
DueAnswered(c, id) ==
  /\ is_some(c.review)
  /\ unwrap(c.review).tracking.ok
  /\ (~unwrap(c.review).tracking.paused \/ c.args.review_notify_when_paused)
  /\ unwrap(c.review).due = [ok |-> TRUE, block |-> Some(id)]

\* C37: after a toast for block B, the first review check at or after the
\* end of the repeat interval that finds B still due, with the conditions
\* of a notification met, shows a toast for B again.
C37_ToastRepeated ==
  [][\A id \in {Rfc3339Format(0), Rfc3339Format(60)} :
       ( /\ collector.last_review_notified_block_id = Some(id)
         /\ is_some(collector.review_snooze_until)
         /\ now >= unwrap(collector.review_snooze_until)
         /\ DueAnswered(collector', id) )
       => collector'.toast = Some(id)]_vars

\* C37, second half: no toast of any block is shown before the end of the
\* repeat interval (review_notify_repeat_minutes, at least one minute)
\* that the last toast started.
C37_NoToastBeforeRepeat ==
  [][is_some(collector'.toast)
       => /\ ( is_some(collector.review_snooze_until)
                 => now >= unwrap(collector.review_snooze_until) )
          /\ collector'.review_snooze_until
               = Some(now + max(collector.args.review_notify_repeat_minutes, 1) * 60)]_vars

\* C37, what the loop does: a toast is never for the block of the last toast
C37_SameBlockNeverAgain ==
  [][is_some(collector'.toast)
       => collector'.toast # collector.last_review_notified_block_id]_vars

\* a check after the repeat interval found the block of the last toast due
\* and showed nothing
C37_WitnessSilent ==
  /\ collector # None
  /\ is_some(collector.review)
  /\ is_some(collector.last_review_notified_block_id)
  /\ DueAnswered(collector, unwrap(collector.last_review_notified_block_id))
  /\ unwrap(collector.review).at >= unwrap(collector.review_snooze_until)
  /\ collector.toast = None

\* a toast for a block after a toast for another one
C37_WitnessOtherBlock ==
  /\ collector # None
  /\ collector.toast = Some(Rfc3339Format(60))
  /\ unwrap(collector.review).at >= 60
---------------------------------------------------------------------------
(* C38: the order of the top items.  In SpecBlocks the events, the       *)
(* settings and the clock never change, so any two answers of            *)
(* get_blocks_today are answers for the same events, settings and now.   *)

\* two answers of get_blocks_today, one right after the other
TwoBlockReads == last.op = "get_blocks_today" /\ last'.op = "get_blocks_today"

\* the seconds of a list of top items, in its order
SecondsList(items) == [i \in 1..Len(items) |-> items[i].seconds]

\* C38: for the same events, settings and now, every call of build_blocks
\* gives each block the same top_items list: the same entities in the same
\* order, the same five kept, also when bucket entries have equal seconds.
C38_SameTopItems ==
  [][TwoBlockReads =>
       /\ Len(last'.data.blocks) = Len(last.data.blocks)
       /\ \A k \in 1..Len(last.data.blocks) :
            last'.data.blocks[k].top_items = last.data.blocks[k].top_items]_vars

\* C38, what the sort fixes: the two answers have the same blocks with the
\* same seconds at each place of top_items, and where the items at a place
\* differ, another entry of the bucket has the same seconds
C38_DifferOnlyInTies ==
  [][TwoBlockReads =>
       /\ Len(last'.data.blocks) = Len(last.data.blocks)
       /\ \A k \in 1..Len(last.data.blocks) :
            LET x == last.data.blocks[k]
                y == last'.data.blocks[k]
            IN /\ x.id = y.id /\ x.total_seconds = y.total_seconds
               /\ SecondsList(x.top_items) = SecondsList(y.top_items)
               /\ \A i \in 1..Len(x.top_items) :
                    x.top_items[i] # y.top_items[i] =>
                      \E p, q \in DOMAIN BlocksOf(events)[k].bucket :
                        /\ p # q
                        /\ BlocksOf(events)[k].bucket[p] = x.top_items[i].seconds
                        /\ BlocksOf(events)[k].bucket[q] = x.top_items[i].seconds]_vars

A1Exe == <<"a1", ".", "exe">>
A2Exe == <<"a2", ".", "exe">>

\* the place of the app in a list of top items, 0 when it is not there
PlaceOf(items, app) ==
  IF \E i \in 1..Len(items) : items[i].entity = app
  THEN CHOOSE i \in 1..Len(items) : items[i].entity = app
  ELSE 0

\* two apps of one second each, answered in the one order and in the other
C38_WitnessFirstOrder ==
  /\ BlocksRead /\ Len(last.data.blocks) = 1
  /\ LET items == last.data.blocks[1].top_items
     IN /\ PlaceOf(items, A1Exe) > 0
        /\ PlaceOf(items, A1Exe) < PlaceOf(items, A2Exe)
        /\ items[PlaceOf(items, A1Exe)].seconds
             = items[PlaceOf(items, A2Exe)].seconds

C38_WitnessOtherOrder ==
  /\ BlocksRead /\ Len(last.data.blocks) = 1
  /\ LET items == last.data.blocks[1].top_items
     IN /\ PlaceOf(items, A2Exe) > 0
        /\ PlaceOf(items, A2Exe) < PlaceOf(items, A1Exe)
        /\ items[PlaceOf(items, A1Exe)].seconds
             = items[PlaceOf(items, A2Exe)].seconds

\* six apps, the two of one second each tied for the fifth place: the
\* truncation kept a2 and dropped a1
C38_WitnessTieCut ==
  /\ BlocksRead /\ Len(last.data.blocks) = 1
  /\ Len(events) = 6
  /\ LET items == last.data.blocks[1].top_items
     IN /\ Len(items) = 5
        /\ PlaceOf(items, A2Exe) = 5
        /\ PlaceOf(items, A1Exe) = 0
        /\ items[5].seconds = 1
---------------------------------------------------------------------------
(* Draining the due blocks: a client asks GET /blocks/due and marks the    *)
(* block it was answered done with POST /blocks/review, over and over;     *)
(* events, settings and the clock stay as they are.                        *)

MaxDrain == 2

\* an app in focus for half a block, a block, or two blocks and a half,
\* stamped in UTC or an hour east of it
DrainSteps ==
  { StepAt("app_active", None, Some(JStr(CodeExe)), None, g, off) :
      g \in {30, 60, 150}, off \in {0, 1} }

\* the review has skipped set or a field that is not blank
MarksDone(f) ==
  \/ f.skipped
  \/ \E x \in {f.doing, f.output, f.next} : trim(unwrap_or_empty(x)) # <<>>

InitDrain ==
  /\ tracking_state = InitialTrackingState
  /\ privacy_rules = {}
  /\ settings = [DefaultSettings EXCEPT !.block_seconds = 60, !.review_min_seconds = 60]
  /\ block_reviews = {}
  /\ last = NoRequest
  /\ \E w \in Walks(DrainSteps, MaxDrain) :
       /\ events = LogAt(w, settings)
       /\ sqlite_sequence = Len(w)
       /\ now = EndOf(w)
       /\ InitAux

\* the block just answered by the selector is marked done
MarkDone ==
  /\ last.op = "get_blocks_due" /\ last.ok /\ is_some(last.data.due)
  /\ \E f \in {g \in ReviewForms : MarksDone(g)} :
       PostBlockReview([f EXCEPT !.block_id = unwrap(last.data.due).id])

NextDrain ==
  \/ GetBlocksDue(TodayQuery)
  \/ MarkDone

SpecDrain == InitDrain /\ [][NextDrain]_vars

(* C39 *)

DueAnswer == last.op = "get_blocks_due" /\ last.ok
ReviewedIds == { x.block_id : x \in block_reviews }

\* C39: for fixed events, settings and now, when every block the due
\* selector returns is then marked done, the selector never returns a block
\* that is marked done, so the blocks returned are pairwise different, and
\* fewer blocks than the day has were returned before each of them: after
\* as many blocks as the day has were returned, the selector returns none.
C39_DrainTerminates ==
  [][(last'.op = "get_blocks_due" /\ last'.ok /\ is_some(last'.data.due)) =>
       /\ unwrap(last'.data.due).id \notin ReviewedIds
       /\ Cardinality(ReviewedIds) < Len(BlocksOf(events))]_vars

\* the selector returns none after two blocks were returned and marked done
C39_Witness ==
  /\ DueAnswer /\ is_none(last.data.due)
  /\ Cardinality(ReviewedIds) >= 2

\* the selector returned a block after another was marked done
C39_WitnessNext ==
  /\ DueAnswer /\ is_some(last.data.due)
  /\ ReviewedIds # {}

\* none is returned although a block has no review: the last block is too
\* short or not yet over
C39_WitnessLeftOver ==
  /\ DueAnswer /\ is_none(last.data.due)
  /\ ReviewedIds # {}
  /\ Cardinality(ReviewedIds) < Len(BlocksOf(events))
---------------------------------------------------------------------------
(* Reads between appends: events are posted stamped with the clock, the    *)
(* clock moves on, and the blocks of the day are read in between.  Blocks  *)
(* are 60 s long and the idle cutoff is 90 s, so that a wait of 100 s is   *)
(* an idle gap.                                                            *)

MaxAppend == 3
MaxAppendNow == 260

AppendSettings ==
  [DefaultSettings EXCEPT !.block_seconds = 60, !.idle_cutoff_seconds = 90]

\* what is posted at instant t: an app in focus, stamped in UTC or an hour
\* east of it, or a tab that plays audio
AppendPayloads(t) ==
  { Payload(Some(JNum(1)), Rfc3339Format(t), "app_active", None, Some(JStr(CodeExe)),
            None, None, None, None),
    Payload(Some(JNum(1)), TextAt(t, 1), "app_active", None, Some(JStr(CodeExe)),
            None, None, None, None),
    Payload(Some(JNum(1)), Rfc3339Format(t), "tab_active", Some(JStr(YoutubeCom)), None,
            None, None, None, Some(JStr(<<"audio">>))) }

\* post_event with a log of up to MaxAppend rows
PostEventLater(payload) ==
  LET out == post_event(payload, events, sqlite_sequence, tracking_state,
                        privacy_rules, settings, now)
  IN /\ Len(events) < MaxAppend
     /\ events' = out.events
     /\ sqlite_sequence' = out.sqlite_sequence
     /\ tracking_state' = out.tracking_state
     /\ last' = Served("post_event", Some(payload), out, None,
                       out.tracking_state # tracking_state)
     /\ issued' = issued \cup IdsOf(out.events)
     /\ UNCHANGED <<now, privacy_rules, settings, block_reviews,
                    reports, app_settings, inflight, collector, scheduler>>

\* the wall clock, by half a block or past the idle cutoff
TickLater ==
  \E d \in {30, 100} :
    /\ now + d <= MaxAppendNow
    /\ now' = now + d
    /\ UNCHANGED <<tracking_state, events, sqlite_sequence, privacy_rules, settings,
                   block_reviews, last, aux>>

InitAppend ==
  /\ now = 0
  /\ tracking_state = InitialTrackingState
  /\ events = <<>>
  /\ sqlite_sequence = 0
  /\ privacy_rules = {}
  /\ settings = AppendSettings
  /\ block_reviews = {}
  /\ last = NoRequest
  /\ InitAux

NextAppend ==
  \/ \E p \in AppendPayloads(now) : PostEventLater(p)
  \/ TickLater
  \/ GetBlocksToday(TodayQuery)

SpecAppend == InitAppend /\ [][NextAppend]_vars

(* C40 *)

\* the blocks build_blocks gives for the day's rows of log at instant t
BlocksAt(log, t) ==
  build_blocks(list_events_between(log, 0, SECONDS_PER_DAY, privacy_rules), settings, t)

FullBlock(b) == b.total_seconds = max(settings.block_seconds, 60)

\* summary b is among the blocks, with its id, start_ts, end_ts and
\* total_seconds
ReturnedAgain(b, blocks) ==
  \E k \in 1..Len(blocks) :
    /\ BlockId(blocks[k]) = b.id
    /\ BlockId(blocks[k]) = b.start_ts
    /\ TextAt(blocks[k].end, blocks[k].end_off) = b.end_ts
    /\ blocks[k].total_seconds = b.total_seconds

\* an event is appended to the log that the last request read the blocks of
AppendAfterRead ==
  /\ last.op = "get_blocks_today" /\ last.ok
  /\ last'.op = "post_event" /\ last'.stored
  /\ Len(events') = Len(events) + 1

\* the stream build_blocks walks: the focus events, the audio events when
\* there are no focus events
WalkedStream(log) ==
  LET evs == list_events_between(log, 0, SECONDS_PER_DAY, privacy_rules)
  IN IF select_stream(evs, FALSE) = <<>> THEN select_stream(evs, TRUE)
     ELSE select_stream(evs, FALSE)

\* C40: after an event is appended whose timestamp is not earlier than any
\* stored event nor than the now of the previous read, every block that was
\* full in the previous read is returned again, at the time of the append
\* and later, with the same id, start_ts, end_ts and total_seconds.
C40_FullBlocksStay ==
  [][AppendAfterRead =>
       \A i \in 1..Len(last.data.blocks), d \in {0, 30, 100} :
         FullBlock(last.data.blocks[i]) =>
           ReturnedAgain(last.data.blocks[i], BlocksAt(events', now + d))]_vars

\* C40, where it holds: the full blocks stay when the appended event leaves
\* the walked stream as it was or becomes its last event, whatever the gap
C40_StayWhenStreamExtended ==
  [][AppendAfterRead =>
       LET W == WalkedStream(events)
           V == WalkedStream(events')
       IN ( \/ V = W
            \/ W # <<>> /\ Len(V) = Len(W) + 1 /\ SubSeq(V, 1, Len(W)) = W )
          => \A i \in 1..Len(last.data.blocks), d \in {0, 30, 100} :
               FullBlock(last.data.blocks[i]) =>
                 ReturnedAgain(last.data.blocks[i], BlocksAt(events', now + d))]_vars

\* the log but for its last row
Earlier(log) == SubSeq(log, 1, Len(log) - 1)

\* the last event was posted more than the idle cutoff after the one before
\* it, and the block that was full at a read just before is still there
C40_WitnessIdleGap ==
  /\ last.op = "post_event" /\ last.stored /\ Len(events) >= 2
  /\ LET V == WalkedStream(events)
     IN /\ V = WalkedStream(Earlier(events)) \o <<V[Len(V)]>>
        /\ Len(V) >= 2
        /\ V[Len(V)].ts - V[Len(V) - 1].ts > max(settings.idle_cutoff_seconds, 10)
  /\ \E k \in 1..Len(BlocksAt(Earlier(events), now)) :
       LET b == BlocksAt(Earlier(events), now)[k]
       IN /\ FullBlock(b)
          /\ \E j \in 1..Len(BlocksAt(events, now)) : SameBlock(BlocksAt(events, now)[j], b)

\* the blocks were built from the audio events until the first focus event
\* was posted; a block that was full is gone
C40_WitnessFocusArrives ==
  /\ last.op = "post_event" /\ last.stored /\ Len(events) >= 2
  /\ select_stream(list_events_between(Earlier(events), 0, SECONDS_PER_DAY, privacy_rules), FALSE) = <<>>
  /\ select_stream(list_events_between(events, 0, SECONDS_PER_DAY, privacy_rules), FALSE) # <<>>
  /\ \E k \in 1..Len(BlocksAt(Earlier(events), now)) :
       LET b == BlocksAt(Earlier(events), now)[k]
       IN /\ FullBlock(b)
          /\ \A j \in 1..Len(BlocksAt(events, now)) : BlockId(BlocksAt(events, now)[j]) # BlockId(b)

\* the appended event is stamped in UTC and the stored one an hour east of
\* it: the walk starts at the appended event and the full block of the
\* stored one is gone
C40_WitnessOffsets ==
  /\ last.op = "post_event" /\ last.stored /\ Len(events) = 2
  /\ events[1].ts.off = 1 /\ events[2].ts.off = 0
  /\ events[1].ts.inst < events[2].ts.inst
  /\ \E k \in 1..Len(BlocksAt(Earlier(events), now)) :
       LET b == BlocksAt(Earlier(events), now)[k]
       IN /\ FullBlock(b)
          /\ \A j \in 1..Len(BlocksAt(events, now)) : BlockId(BlocksAt(events, now)[j]) # BlockId(b)

\* full blocks of the previous read are there after the append
C40_WitnessKept ==
  /\ last.op = "post_event" /\ last.stored /\ Len(events) >= 2
  /\ Len(BlocksAt(Earlier(events), now)) >= 2
  /\ \A k \in 1..Len(BlocksAt(Earlier(events), now)) :
       LET b == BlocksAt(Earlier(events), now)[k]
       IN FullBlock(b) /\ \E j \in 1..Len(BlocksAt(events, now)) :
                             SameBlock(BlocksAt(events, now)[j], b)
=============================================================================
